---- MODULE Spec2Model ----
(***************************************************************************)
(* Sleep Outside: the cart manager (cartManager.mjs) and the inventory     *)
(* manager (inventoryManager.mjs) over the browser's localStorage.         *)
(*                                                                         *)
(* Each manager operation is synchronous and runs to completion in one     *)
(* event-loop turn, so one action is one whole call: read, change, save,   *)
(* notify, return.                                                         *)
(*                                                                         *)
(* Values.  A cart line is a record [Id, Quantity, FinalPrice, Price];     *)
(* prices are whole numbers (cents) and 0 stands for every falsy price     *)
(* (0 or a missing field), which the code's `||` cannot tell apart.        *)
(* A JSON value in localStorage is [present, items]: present = FALSE is    *)
(* getItem() returning null.  JSON.stringify/JSON.parse of the plain       *)
(* records used here give back an equal, unshared copy.                    *)
(* An optional argument is a sequence of length <= 1 (<<>> is null).       *)
(***************************************************************************)
EXTENDS Integers, Sequences, FiniteSets, TLC

VARIABLES cartStore, listeners, callLog, cartLast,
          inventory, category, invStore, invLast, clock,
          form,
          heap, thisErrors, result, valLast, calls,
          pureIn, pureOut,
          productSearch, header, searchUi, tabs, renderer

cartVars == <<cartStore, listeners, callLog, cartLast>>
invVars  == <<inventory, category, invStore, invLast, clock>>
formVars == <<form>>
checkoutVars == <<heap, thisErrors, result, valLast, calls>>
pureVars == <<pureIn, pureOut>>
uiVars   == <<productSearch, header, searchUi, tabs, renderer>>
\* the page variables other than the one named
searchRest == <<header, searchUi, tabs, renderer>>
headerRest == <<productSearch, searchUi, tabs, renderer>>
handlerRest == <<header, tabs, renderer>>
tabsRest == <<productSearch, header, searchUi, renderer>>
rendererRest == <<productSearch, header, searchUi, tabs>>
vars     == <<cartStore, listeners, callLog, cartLast,
              inventory, category, invStore, invLast, clock,
              form, heap, thisErrors, result, valLast, calls, pureIn, pureOut,
              productSearch, header, searchUi, tabs, renderer>>

(***************************************************************************)
(* Bounds                                                                  *)
(***************************************************************************)
MaxQty == 2
MinQty == 0 - 1
MaxListeners == 2

(***************************************************************************)
(* Generic helpers                                                         *)
(***************************************************************************)
None == <<>>
Some(v) == <<v>>

\* Array.prototype.findIndex(item => item.Id === id), 1-based; 0 stands
\* for -1 (not found)
IndexOfId(s, id) ==
  IF \E i \in 1..Len(s) : s[i].Id = id
  THEN CHOOSE i \in 1..Len(s) : s[i].Id = id /\ \A j \in 1..(i - 1) : s[j].Id # id
  ELSE 0

\* a removal that stops at the first match
WithoutFirstId(s, id) ==
  IF \E i \in 1..Len(s) : s[i].Id = id
  THEN LET first == CHOOSE i \in 1..Len(s) :
                      s[i].Id = id /\ \A j \in 1..(i - 1) : s[j].Id # id
       IN SubSeq(s, 1, first - 1) \o SubSeq(s, first + 1, Len(s))
  ELSE s

\* Array.prototype.filter(item => item.Id !== id)
WithoutId(s, id) == SelectSeq(s, LAMBDA item : item.Id # id)

\* Array.prototype.splice(i, 1)
Splice1(s, i) == SubSeq(s, 1, i - 1) \o SubSeq(s, i + 1, Len(s))

(***************************************************************************)
(* Cart manager                                                            *)
(***************************************************************************)
Products ==
  { [Id |-> "T1", Quantity |-> 0, FinalPrice |-> 20, Price |-> 25],
    [Id |-> "B2", Quantity |-> 7, FinalPrice |-> 0,  Price |-> 15],
    [Id |-> "S3", Quantity |-> 0, FinalPrice |-> 0,  Price |-> 0] }

ProductIds == {p.Id : p \in Products}

EventTypes == {"cartUpdated", "other"}

\* the callbacks a page can register; one of them throws when called
Callbacks == { [name |-> "badge",  throws |-> FALSE],
               [name |-> "faulty", throws |-> TRUE] }

\* what is registered under each event type in the runs explored
CallbacksFor(eventType) ==
  IF eventType = "cartUpdated" THEN Callbacks
  ELSE { cb \in Callbacks : cb.throws }

NoStore == [present |-> FALSE, items |-> <<>>]

\* utils.mjs getLocalStorage: null when the key is absent
getLocalStorage(st) == IF st.present THEN Some(st.items) ELSE None

\* utils.mjs setLocalStorage
setLocalStorage(data) == [present |-> TRUE, items |-> data]

\* getCartItems: getLocalStorage(key) || []
getCartItems(st) ==
  IF getLocalStorage(st) = None THEN <<>> ELSE getLocalStorage(st)[1]

\* a save that writes only when the key is absent
saveCartOnce(cart) == IF cartStore.present THEN cartStore ELSE setLocalStorage(cart)

saveCart(cart) == setLocalStorage(cart)

\* a count that ignores the stored quantity
QtyAlways1(item) == 1

\* item.Quantity || 1
QtyOr1(item) == IF item.Quantity = 0 THEN 1 ELSE item.Quantity

\* item.FinalPrice || item.Price || 0
PriceOf(item) ==
  IF item.FinalPrice # 0 THEN item.FinalPrice
  ELSE IF item.Price # 0 THEN item.Price ELSE 0

\* an add that never looks for an existing line
AddCartDup(cart, product) == Append(cart, [product EXCEPT !.Quantity = 1])

\* the cart array addToCart builds for a non-null product
AddCart(cart, product) ==
  LET existingIndex == IndexOfId(cart, product.Id) IN
    IF existingIndex > 0
    THEN [cart EXCEPT ![existingIndex].Quantity = QtyOr1(cart[existingIndex]) + 1]
    ELSE Append(cart, [product EXCEPT !.Quantity = 1])

\* a removal by splice(findIndex(...), 1): index -1 takes the last line
RemoveCartSplice(cart, productId) ==
  IF IndexOfId(cart, productId) > 0
  THEN Splice1(cart, IndexOfId(cart, productId))
  ELSE SubSeq(cart, 1, Len(cart) - 1)

\* the cart array removeFromCart builds
RemoveCart(cart, productId) == WithoutId(cart, productId)

\* a floor that lets quantity 0 through
RemovesLineStrict(quantity) == quantity < 0

\* quantity <= 0 in updateQuantity
RemovesLine(quantity) == quantity <= 0

\* an update that adds to the stored quantity instead of overwriting it
UpdateCartAdds(cart, productId, quantity) ==
  LET itemIndex == IndexOfId(cart, productId) IN
    IF itemIndex > 0
    THEN IF RemovesLine(quantity)
         THEN Splice1(cart, itemIndex)
         ELSE [cart EXCEPT ![itemIndex].Quantity = @ + quantity]
    ELSE cart

\* the cart array updateQuantity builds
UpdateCart(cart, productId, quantity) ==
  LET itemIndex == IndexOfId(cart, productId) IN
    IF itemIndex > 0
    THEN IF RemovesLine(quantity)
         THEN Splice1(cart, itemIndex)
         ELSE [cart EXCEPT ![itemIndex].Quantity = quantity]
    ELSE cart

\* getItemCount: reduce over the persisted cart
RECURSIVE CountReduce(_)
CountReduce(cart) ==
  IF cart = <<>> THEN 0
  ELSE CountReduce(SubSeq(cart, 1, Len(cart) - 1)) + QtyOr1(cart[Len(cart)])

getItemCount(st) == CountReduce(getCartItems(st))

\* getCartTotal: reduce over the persisted cart
RECURSIVE TotalReduce(_)
TotalReduce(cart) ==
  IF cart = <<>> THEN 0
  ELSE TotalReduce(SubSeq(cart, 1, Len(cart) - 1))
         + PriceOf(cart[Len(cart)]) * QtyOr1(cart[Len(cart)])

getCartTotal(st) == TotalReduce(getCartItems(st))

\* the callbacks forEach reaches: it stops at the first one that throws,
\* because notifyListeners has no try/catch around callback(data)
Reached(ls) ==
  IF \E i \in 1..Len(ls) : ls[i].throws
  THEN SubSeq(ls, 1, CHOOSE i \in 1..Len(ls) :
                       ls[i].throws /\ \A j \in 1..(i - 1) : ~ls[j].throws)
  ELSE ls

\* notifyListeners(eventType, data): the calls made, in order.  Each entry
\* keeps what the callback was given and what the store held at that moment.
notifyListeners(lsn, eventType, data, st) ==
  LET reached == Reached(lsn[eventType]) IN
    [i \in 1..Len(reached) |->
       [idx |-> i, cb |-> reached[i], event |-> eventType,
        cart |-> data.cart, action |-> data.action,
        stored |-> getCartItems(st)]]

\* does the exception of a callback leave the operation?
Throws(lsn, eventType) == \E i \in 1..Len(lsn[eventType]) : lsn[eventType][i].throws

\* the outcome of one call as seen by the caller: what was called with
\* what (again: the same call as the one before it), the store and the
\* subscribers it found, the array it returns and whether an exception left
\* the call instead
CartResult(op, product, productId, quantity, ret, notified, threw) ==
  [op |-> op, product |-> product, productId |-> productId,
   quantity |-> quantity,
   again |-> (cartLast.op = op /\ cartLast.productId = productId
                /\ cartLast.quantity = quantity),
   before |-> cartStore,
   listeners |-> listeners["cartUpdated"],
   ret |-> ret, notified |-> notified, threw |-> threw]

\* save, notify, return: the tail shared by the four mutating operations
Commit(op, product, productId, quantity, cart, action) ==
  /\ cartStore' = saveCart(cart)
  /\ callLog' = notifyListeners(listeners, "cartUpdated",
                                [cart |-> cart, action |-> action], cartStore')
  /\ cartLast' = CartResult(op, product, productId, quantity, cart, TRUE,
                            Throws(listeners, "cartUpdated"))

addToCart(product) ==
  /\ IF product = None
     THEN /\ cartLast' = CartResult("addToCart", product, "", 0,
                                    getCartItems(cartStore), FALSE, FALSE)
          /\ callLog' = <<>>
          /\ UNCHANGED cartStore
     ELSE LET cart == getCartItems(cartStore) IN
            /\ \A i \in 1..Len(cart) :
                 cart[i].Id = product[1].Id => cart[i].Quantity < MaxQty
            /\ Commit("addToCart", product, product[1].Id, 0,
                      AddCart(cart, product[1]), "add")
  /\ UNCHANGED listeners

removeFromCart(productId) ==
  /\ Commit("removeFromCart", None, productId, 0,
            RemoveCart(getCartItems(cartStore), productId), "remove")
  /\ UNCHANGED listeners

updateQuantity(productId, quantity) ==
  /\ Commit("updateQuantity", None, productId, quantity,
            UpdateCart(getCartItems(cartStore), productId, quantity),
            "updateQuantity")
  /\ UNCHANGED listeners

clearCart ==
  /\ Commit("clearCart", None, "", 0, <<>>, "clear")
  /\ UNCHANGED listeners

\* onCartUpdate(eventType, callback): append, no de-duplication.  Under
\* "cartUpdated" the same callback may be registered again, up to
\* MaxListeners entries; under another event type the runs explored
\* register each callback once.
onCartUpdate(eventType, callback) ==
  /\ IF eventType = "cartUpdated"
     THEN Len(listeners[eventType]) < MaxListeners
     ELSE \A i \in 1..Len(listeners[eventType]) :
            listeners[eventType][i] # callback
  /\ listeners' = [listeners EXCEPT ![eventType] = Append(@, callback)]
  /\ callLog' = <<>>
  /\ cartLast' = CartResult("onCartUpdate", None, "", 0,
                            getCartItems(cartStore), FALSE, FALSE)
  /\ UNCHANGED cartStore

\* the parts of the page a scenario does not exercise stay as constructed
FormIdle == form = [op |-> "none"]
CheckoutIdle ==
  /\ heap = <<>>
  /\ thisErrors = 0
  /\ result = <<>>
  /\ valLast = [op |-> "none"]
  /\ calls = 0
PureIdle == pureIn = <<>> /\ pureOut = <<>>
SearchIdle == productSearch = [op |-> "none"]
HeaderIdle == header = [event |-> "none"]
HandlerIdle == searchUi = [event |-> "none"]
TabsIdle == tabs = [focus |-> 0]
RendererIdle == renderer = [event |-> "none"]
UiIdle == SearchIdle /\ HeaderIdle /\ HandlerIdle /\ TabsIdle /\ RendererIdle
SearchRestIdle == HeaderIdle /\ HandlerIdle /\ TabsIdle /\ RendererIdle
HeaderRestIdle == SearchIdle /\ HandlerIdle /\ TabsIdle /\ RendererIdle
HandlerRestIdle == HeaderIdle /\ TabsIdle /\ RendererIdle
TabsRestIdle == SearchIdle /\ HeaderIdle /\ HandlerIdle /\ RendererIdle
RendererRestIdle == SearchIdle /\ HeaderIdle /\ HandlerIdle /\ TabsIdle
OtherIdle == FormIdle /\ CheckoutIdle /\ PureIdle /\ UiIdle

CartInit ==
  /\ cartStore = NoStore
  /\ listeners = [e \in EventTypes |-> <<>>]
  /\ callLog = <<>>
  /\ cartLast = [op |-> "new", product |-> None, productId |-> "",
                 quantity |-> 0, again |-> FALSE, before |-> NoStore, listeners |-> <<>>,
                 ret |-> <<>>, notified |-> FALSE, threw |-> FALSE]

\* the inventory manager is not constructed on the cart pages
InvIdle ==
  /\ inventory = <<>>
  /\ category = "tents"
  /\ invStore = [c \in {"tents"} |-> NoStore]
  /\ invLast = [op |-> "none"]
  /\ clock = 0

InitCart == CartInit /\ InvIdle /\ OtherIdle

AddStep == \E product \in {None} \cup {Some(p) : p \in Products} : addToCart(product)
RemoveStep == \E productId \in ProductIds : removeFromCart(productId)
UpdateStep == \E productId \in ProductIds, quantity \in MinQty..MaxQty :
                updateQuantity(productId, quantity)
SubscribeStep == \E eventType \in EventTypes :
                   \E callback \in CallbacksFor(eventType) :
                     onCartUpdate(eventType, callback)

NextCart ==
  \/ AddStep /\ UNCHANGED <<invVars, formVars, checkoutVars, pureVars, uiVars>>
  \/ RemoveStep /\ UNCHANGED <<invVars, formVars, checkoutVars, pureVars, uiVars>>
  \/ UpdateStep /\ UNCHANGED <<invVars, formVars, checkoutVars, pureVars, uiVars>>
  \/ clearCart /\ UNCHANGED <<invVars, formVars, checkoutVars, pureVars, uiVars>>
  \/ SubscribeStep /\ UNCHANGED <<invVars, formVars, checkoutVars, pureVars, uiVars>>

SpecCart == InitCart /\ [][NextCart]_vars

(***************************************************************************)
(* Inventory manager                                                       *)
(*                                                                         *)
(* A record is a function from field names to values; a field that is      *)
(* absent (updatedAt before the first update) is not in its domain.  The   *)
(* constant fields addProduct writes (Brand, Colors, SizesAvailable) are    *)
(* left out.  invStore[c] is localStorage['so-inventory-' + c].            *)
(***************************************************************************)
MaxInv == 2
MaxClock == 2

Categories == {"tents", "backpacks"}

\* generateUniqueId: Date.now() in base 36 followed by six random
\* characters, upper-cased.  The id is modelled by the time it was made at;
\* two adds in one millisecond drawing the same six characters are left out.
generateUniqueId(now) == now

\* the ids handed to deleteProduct and updateProduct; 0 is never generated
Ids == 0..MaxClock

\* what the form hands to addProduct (getFormData)
FormData ==
  { [productName |-> "Tent A", category |-> "tents", price |-> "50",
     description |-> "Two person tent", imageUrl |-> "https://x/a.jpg"],
    [productName |-> "Pack B", category |-> "backpacks", price |-> "120",
     description |-> "Forty litre pack", imageUrl |-> "https://x/b.png"] }

\* parseFloat on the price strings used here
parseFloat(str) ==
  CASE str = "50" -> 50
    [] str = "75" -> 75
    [] str = "120" -> 120

\* the patch handed to updateProduct: two stored fields
Patches ==
  { [Name |-> "Tent Z", FinalPrice |-> 75] }

\* { ...a, ...b }
Spread(a, b) ==
  [f \in DOMAIN a \cup DOMAIN b |-> IF f \in DOMAIN b THEN b[f] ELSE a[f]]

\* loadFromStorage: the stored array, [] when the key is absent
loadFromStorage(store, cat) ==
  IF store[cat].present THEN store[cat].items ELSE <<>>

\* a save that writes the array under every category's key
saveToEveryKey(store, cat, inv, ok) ==
  IF ok THEN [c \in DOMAIN store |-> [present |-> TRUE, items |-> inv]]
  ELSE store

\* saveToStorage: setItem writes the whole array, or throws (quota, storage
\* unavailable) and saveToStorage returns false with the store untouched
saveToStorage(store, cat, inv, ok) ==
  IF ok THEN [store EXCEPT ![cat] = [present |-> TRUE, items |-> inv]]
  ELSE store

\* the writes of addProduct, deleteProduct, updateProduct, clearAll and
\* importFromJSON: saveToStorage was called and returned true
Wrote(last) ==
  /\ last.success
  /\ last.op \in {"addProduct", "deleteProduct", "updateProduct", "clearAll",
                  "importFromJSON"}

\* the standardized product object addProduct creates
NewProduct(product, newId, now) ==
  [Id |-> newId,
   Name |-> product.productName,
   NameWithoutBrand |-> product.productName,
   Image |-> product.imageUrl,
   FinalPrice |-> parseFloat(product.price),
   ListPrice |-> parseFloat(product.price),
   DescriptionHtmlSimple |-> product.description,
   category |-> product.category,
   createdAt |-> now]

\* a merge in which the stored fields win over the patch
UpdatedOldWins(old, updates, now) ==
  Spread(Spread(updates, old), [updatedAt |-> now])

\* the record updateProduct stores
Updated(old, updates, now) ==
  Spread(Spread(old, updates), [updatedAt |-> now])

\* what a call was given, what it found and what it returns
InvResult(op, productId, arg, success, message, product) ==
  [op |-> op, productId |-> productId, arg |-> arg,
   found |-> (IndexOfId(inventory, productId) > 0),
   success |-> success, message |-> message, product |-> product]

\* an add that reads the stored array again before it appends
addProductReloading(product, now, ok) ==
  LET newId == generateUniqueId(now) IN
  /\ Len(loadFromStorage(invStore, category)) < MaxInv
  /\ inventory' = Append(loadFromStorage(invStore, category),
                         NewProduct(product, newId, now))
  /\ invStore' = saveToStorage(invStore, category, inventory', ok)
  /\ invLast' = IF ok
                THEN InvResult("addProduct", newId, product, TRUE,
                               "Product added successfully!",
                               Some(NewProduct(product, newId, now)))
                ELSE InvResult("addProduct", newId, product, FALSE,
                               "Error adding product: Failed to save to localStorage",
                               None)
  /\ clock' = now
  /\ UNCHANGED category

addProduct(product, now, ok) ==
  LET newId == generateUniqueId(now) IN
  /\ Len(inventory) < MaxInv
  /\ inventory' = Append(inventory, NewProduct(product, newId, now))
  /\ invStore' = saveToStorage(invStore, category, inventory', ok)
  /\ invLast' = IF ok
                THEN InvResult("addProduct", newId, product, TRUE,
                               "Product added successfully!",
                               Some(NewProduct(product, newId, now)))
                ELSE InvResult("addProduct", newId, product, FALSE,
                               "Error adding product: Failed to save to localStorage",
                               None)
  /\ clock' = now
  /\ UNCHANGED category

deleteProduct(productId, ok) ==
  /\ inventory' = WithoutId(inventory, productId)
  /\ IF Len(inventory') = Len(inventory)
     THEN /\ invLast' = InvResult("deleteProduct", productId, <<>>, FALSE,
                                  "Product not found", None)
          /\ UNCHANGED invStore
     ELSE /\ invStore' = saveToStorage(invStore, category, inventory', ok)
          /\ invLast' = IF ok
                        THEN InvResult("deleteProduct", productId, <<>>, TRUE,
                                       "Product deleted successfully!", None)
                        ELSE InvResult("deleteProduct", productId, <<>>, FALSE,
                                       "Error deleting product: Failed to save to localStorage",
                                       None)
  /\ UNCHANGED <<category, clock>>

updateProduct(productId, updates, now, ok) ==
  LET productIndex == IndexOfId(inventory, productId) IN
    IF productIndex = 0
    THEN /\ invLast' = InvResult("updateProduct", productId, updates, FALSE,
                                 "Product not found", None)
         /\ UNCHANGED <<inventory, invStore, category, clock>>
    ELSE LET updatedProduct == Updated(inventory[productIndex], updates, now) IN
           /\ inventory' = [inventory EXCEPT ![productIndex] = updatedProduct]
           /\ invStore' = saveToStorage(invStore, category, inventory', ok)
           /\ invLast' = IF ok
                         THEN InvResult("updateProduct", productId, updates, TRUE,
                                        "Product updated successfully!",
                                        Some(updatedProduct))
                         ELSE InvResult("updateProduct", productId, updates, FALSE,
                                        "Error updating product: Failed to save to localStorage",
                                        None)
           /\ clock' = now
           /\ UNCHANGED category

clearAll(ok) ==
  /\ inventory' = <<>>
  /\ invStore' = saveToStorage(invStore, category, inventory', ok)
  /\ invLast' = IF ok
                THEN InvResult("clearAll", 0, <<>>, TRUE,
                               "Inventory cleared successfully!", None)
                ELSE InvResult("clearAll", 0, <<>>, FALSE,
                               "Error clearing inventory: Failed to save to localStorage",
                               None)
  /\ UNCHANGED <<category, clock>>

switchCategory(newCategory) ==
  /\ category' = newCategory
  /\ inventory' = loadFromStorage(invStore, newCategory)
  /\ invLast' = InvResult("switchCategory", 0, newCategory, TRUE, "", None)
  /\ UNCHANGED <<invStore, clock>>

\* JSON.parse(jsonString) for the strings handed to importFromJSON:
\* parses = FALSE is a SyntaxError, isArray is Array.isArray(imported)
Payloads ==
  { [parses |-> FALSE, isArray |-> FALSE, value |-> <<>>],
    [parses |-> TRUE,  isArray |-> FALSE, value |-> <<>>],
    [parses |-> TRUE,  isArray |-> TRUE,  value |-> <<>>],
    [parses |-> TRUE,  isArray |-> TRUE,
     value |-> << [Id |-> 1, Name |-> "Tent A", category |-> "tents"],
                  [Id |-> 2, Name |-> "Pack B", category |-> "backpacks"],
                  [Id |-> 1, Name |-> "Tent C", category |-> "tents"] >>] }

\* exportAsJSON: JSON.stringify(this.inventory, null, 2).  The records hold
\* strings and finite numbers only, which JSON.parse gives back as they were
exportAsJSON ==
  [parses |-> TRUE, isArray |-> TRUE, value |-> inventory]

\* an import that replaces the inventory by whatever the string parses to
importUnchecked(json, ok) ==
  IF ~json.parses
  THEN /\ invLast' = InvResult("importFromJSON", 0, json, FALSE,
                               "Error importing inventory: Unexpected token", None)
       /\ UNCHANGED <<inventory, invStore, category, clock>>
  ELSE /\ inventory' = json.value
       /\ invStore' = saveToStorage(invStore, category, inventory', ok)
       /\ invLast' = InvResult("importFromJSON", 0, json, ok, "", None)
       /\ UNCHANGED <<category, clock>>

importFromJSON(json, ok) ==
  IF ~json.parses
  THEN /\ invLast' = InvResult("importFromJSON", 0, json, FALSE,
                               "Error importing inventory: Unexpected token", None)
       /\ UNCHANGED <<inventory, invStore, category, clock>>
  ELSE IF ~json.isArray
  THEN /\ invLast' = InvResult("importFromJSON", 0, json, FALSE,
                               "Error importing inventory: Imported data must be an array",
                               None)
       /\ UNCHANGED <<inventory, invStore, category, clock>>
  ELSE /\ inventory' = json.value
       /\ invStore' = saveToStorage(invStore, category, inventory', ok)
       /\ invLast' = IF ok
                     THEN InvResult("importFromJSON", 0, json, TRUE,
                                    "Imported " \o ToString(Len(json.value))
                                      \o " products successfully!", None)
                     ELSE InvResult("importFromJSON", 0, json, FALSE,
                                    "Error importing inventory: Failed to save to localStorage",
                                    None)
       /\ UNCHANGED <<category, clock>>

InvInit ==
  /\ category = "tents"
  /\ invStore = [c \in Categories |-> NoStore]
  /\ inventory = loadFromStorage(invStore, category)
  /\ invLast = [op |-> "new", productId |-> 0, arg |-> <<>>, found |-> FALSE,
                success |-> TRUE, message |-> "", product |-> None]
  /\ clock = 0

CartIdle ==
  /\ cartStore = NoStore
  /\ listeners = [e \in EventTypes |-> <<>>]
  /\ callLog = <<>>
  /\ cartLast = [op |-> "none"]

InitInv == InvInit /\ CartIdle /\ OtherIdle

\* the time a stamping call reads: later than the one before it
Later == { t \in {clock + 1} : t <= MaxClock }

AddProductStep ==
  \E product \in FormData, now \in Later, ok \in BOOLEAN :
    addProduct(product, now, ok)
DeleteProductStep ==
  \E productId \in Ids, ok \in BOOLEAN : deleteProduct(productId, ok)
UpdateProductStep ==
  \E productId \in Ids, updates \in Patches, now \in Later, ok \in BOOLEAN :
    updateProduct(productId, updates, now, ok)
ClearAllStep == \E ok \in BOOLEAN : clearAll(ok)
SwitchCategoryStep == \E newCategory \in Categories : switchCategory(newCategory)
ImportStep ==
  \E json \in Payloads \cup {exportAsJSON}, ok \in BOOLEAN : importFromJSON(json, ok)

NextInv ==
  \/ AddProductStep /\ UNCHANGED <<cartVars, formVars, checkoutVars, pureVars, uiVars>>
  \/ DeleteProductStep /\ UNCHANGED <<cartVars, formVars, checkoutVars, pureVars, uiVars>>
  \/ UpdateProductStep /\ UNCHANGED <<cartVars, formVars, checkoutVars, pureVars, uiVars>>
  \/ ClearAllStep /\ UNCHANGED <<cartVars, formVars, checkoutVars, pureVars, uiVars>>
  \/ SwitchCategoryStep /\ UNCHANGED <<cartVars, formVars, checkoutVars, pureVars, uiVars>>
  \/ ImportStep /\ UNCHANGED <<cartVars, formVars, checkoutVars, pureVars, uiVars>>

SpecInv == InitInv /\ [][NextInv]_vars

(***************************************************************************)
(* Inventory properties (checked under SpecInv)                            *)
(***************************************************************************)
Stored == loadFromStorage(invStore, category)
Matches(inv, id) == {i \in 1..Len(inv) : inv[i].Id = id}
Kept(inv, id) == {i \in 1..Len(inv) : inv[i].Id # id}
Written(store, cat, inv) == [store EXCEPT ![cat] = [present |-> TRUE, items |-> inv]]
SaveFailed(what) == "Error " \o what \o ": Failed to save to localStorage"

\* C8: after every operation returns, also when the store write fails, the
\* in-memory list equals the persisted list of the active key; a failed
\* addProduct returns {success:false, message, product:null} and the record
\* it appended is no longer in the in-memory list.
C8_MemoryMatchesStore ==
  /\ inventory = Stored
  /\ (invLast.op = "addProduct" /\ ~invLast.success) =>
       /\ invLast.product = None
       /\ \A i \in 1..Len(inventory) : inventory[i].Id # invLast.productId

\* inventory' is inventory without the records whose Id is id, in order
RemovedExactly(id) ==
  /\ Len(inventory') = Cardinality(Kept(inventory, id))
  /\ \A i \in Kept(inventory, id) :
       inventory'[Cardinality({j \in Kept(inventory, id) : j <= i})] = inventory[i]

NotFoundUntouched ==
  /\ ~invLast'.success
  /\ invLast'.message = "Product not found"
  /\ inventory' = inventory
  /\ invStore' = invStore

\* C9 as claimed: deleteProduct(id) on an id that matches no record returns
\* success:false with 'Product not found' and changes neither list; on a
\* matching id it removes exactly the records with that Id, keeps the others
\* in order, persists and succeeds; a second deleteProduct(id) right after it
\* fails with 'Product not found'.  (Stated for calls made while the
\* in-memory list equals the persisted one.)
C9_DeleteAlwaysPersists ==
  [][ (invLast'.op = "deleteProduct" /\ inventory = Stored) =>
        /\ IF Matches(inventory, invLast'.productId) = {}
           THEN NotFoundUntouched
           ELSE /\ RemovedExactly(invLast'.productId)
                /\ invStore' = Written(invStore, category, inventory')
                /\ invLast'.success
        /\ (invLast.op = "deleteProduct" /\ invLast.productId = invLast'.productId)
             => ~invLast'.success /\ invLast'.message = "Product not found"
    ]_vars

\* C9 (amended): as claimed, except that on a matching id the list is
\* persisted and success returned when the store write succeeds; when the
\* write fails the call returns success:false with a save error and the
\* persisted list is unchanged.  After a successful addProduct,
\* deleteProduct(record.Id) finds the record, and a second deleteProduct(id)
\* right after a successful one fails with 'Product not found'.
C9_DeleteProduct ==
  [][ invLast'.op = "deleteProduct" =>
        /\ IF Matches(inventory, invLast'.productId) = {}
           THEN NotFoundUntouched
           ELSE /\ RemovedExactly(invLast'.productId)
                /\ \/ /\ invLast'.success
                      /\ invLast'.message = "Product deleted successfully!"
                      /\ invStore' = Written(invStore, category, inventory')
                   \/ /\ ~invLast'.success
                      /\ invLast'.message = SaveFailed("deleting product")
                      /\ invStore' = invStore
        /\ (invLast.op = "addProduct" /\ invLast.success
              /\ invLast'.productId = invLast.product[1].Id)
             => invLast'.message # "Product not found"
        /\ (invLast.op = "deleteProduct" /\ invLast.success
              /\ invLast.productId = invLast'.productId)
             => ~invLast'.success /\ invLast'.message = "Product not found"
    ]_vars

\* deleteProduct(1) has removed both records of Id 1 from a list of three
\* and written the one that is left
C9_Witness ==
  /\ invLast.op = "deleteProduct"
  /\ invLast.productId = 1
  /\ invLast.success
  /\ Len(inventory) = 1
  /\ inventory[1].Id = 2
  /\ inventory[1].Name = "Pack B"
  /\ Stored = inventory

\* the record updateProduct leaves at position i: the old fields, overridden
\* by the patch, and the stamp
MergedAt(i, patch) ==
  /\ DOMAIN inventory'[i] = DOMAIN inventory[i] \cup DOMAIN patch \cup {"updatedAt"}
  /\ \A f \in DOMAIN patch \ {"updatedAt"} : inventory'[i][f] = patch[f]
  /\ \A f \in DOMAIN inventory[i] \ (DOMAIN patch \cup {"updatedAt"}) :
       inventory'[i][f] = inventory[i][f]
  /\ inventory'[i]["updatedAt"] = clock'

FirstMatch(inv, id) ==
  CHOOSE i \in Matches(inv, id) : \A j \in Matches(inv, id) : i <= j

UpdatedInPlace(id, patch) ==
  /\ Len(inventory') = Len(inventory)
  /\ MergedAt(FirstMatch(inventory, id), patch)
  /\ \A i \in 1..Len(inventory) :
       i # FirstMatch(inventory, id) => inventory'[i] = inventory[i]

\* C10 as claimed: updateProduct(id, patch) on an absent id returns
\* {success:false, product:null} with 'Product not found' and changes
\* neither list; on a present id the record at the same position becomes the
\* old record overridden by the patch plus an updatedAt stamp, the other
\* records and the order are unchanged, and the new list is persisted.
\* (Stated for calls made while the in-memory list equals the persisted one.)
C10_UpdateAlwaysPersists ==
  [][ (invLast'.op = "updateProduct" /\ inventory = Stored) =>
        IF Matches(inventory, invLast'.productId) = {}
        THEN NotFoundUntouched /\ invLast'.product = None
        ELSE /\ UpdatedInPlace(invLast'.productId, invLast'.arg)
             /\ invStore' = Written(invStore, category, inventory')
    ]_vars

\* C10 (amended): as claimed, except that the new list is persisted (and
\* {success:true, product: the new record} returned) when the store write
\* succeeds; when the write fails the call returns {success:false,
\* product:null} with a save error and the persisted list is unchanged.
C10_UpdateProduct ==
  [][ invLast'.op = "updateProduct" =>
        IF Matches(inventory, invLast'.productId) = {}
        THEN NotFoundUntouched /\ invLast'.product = None
        ELSE /\ UpdatedInPlace(invLast'.productId, invLast'.arg)
             /\ \/ /\ invLast'.success
                   /\ invLast'.message = "Product updated successfully!"
                   /\ invLast'.product =
                        Some(inventory'[FirstMatch(inventory, invLast'.productId)])
                   /\ invStore' = Written(invStore, category, inventory')
                \/ /\ ~invLast'.success
                   /\ invLast'.message = SaveFailed("updating product")
                   /\ invLast'.product = None
                   /\ invStore' = invStore
    ]_vars

\* updateProduct has patched and stamped the second of two records and
\* written the list
C10_Witness ==
  /\ invLast.op = "updateProduct"
  /\ invLast.success
  /\ Len(inventory) = 2
  /\ inventory[2].Id = invLast.productId
  /\ inventory[2].Name = "Tent Z"
  /\ inventory[2].FinalPrice = 75
  /\ inventory[2].category = "backpacks"
  /\ "updatedAt" \in DOMAIN inventory[2]
  /\ "updatedAt" \notin DOMAIN inventory[1]
  /\ Stored = inventory

(***************************************************************************)
(* Cart properties (checked under SpecCart)                                *)
(***************************************************************************)
Cart == getCartItems(cartStore)
Before == getCartItems(cartLast.before)
HasLine(cart, id) == \E i \in 1..Len(cart) : cart[i].Id = id
LineOf(cart, id) == CHOOSE i \in 1..Len(cart) : cart[i].Id = id
Mutating ==
  /\ cartLast.op \in {"addToCart", "removeFromCart", "updateQuantity", "clearCart"}
  /\ cartLast.notified

\* C1: after any sequence of addToCart, removeFromCart, updateQuantity and
\* clearCart the persisted cart holds at most one line per product Id and
\* every line's Quantity is at least 1.
C1_OneLinePerIdQtyPositive ==
  /\ \A i, j \in 1..Len(Cart) : Cart[i].Id = Cart[j].Id => i = j
  /\ \A i \in 1..Len(Cart) : Cart[i].Quantity >= 1

\* an updateQuantity with quantity <= 0 has just deleted a line of a cart
\* that keeps other lines
C1_Witness ==
  /\ cartLast.op = "updateQuantity"
  /\ cartLast.quantity <= 0
  /\ HasLine(Before, cartLast.productId)
  /\ Len(Before) = 3
  /\ Len(Cart) = 2

\* C2: addToCart(null) changes nothing, notifies nobody and returns the
\* current cart; addToCart of an Id already in the cart adds exactly 1 to that
\* line's Quantity and keeps the number of lines; addToCart of a new Id
\* appends exactly one line with Quantity 1.  Adding again to a cart that is
\* one line of Quantity 1 gives one line of Quantity 2 and getItemCount() = 2.
C2_AddToCart ==
  cartLast.op = "addToCart" =>
    IF cartLast.product = None
    THEN /\ cartStore = cartLast.before
         /\ callLog = <<>>
         /\ cartLast.ret = Before
         /\ ~cartLast.threw
    ELSE LET p == cartLast.product[1] IN
           IF HasLine(Before, p.Id)
           THEN /\ Len(Cart) = Len(Before)
                /\ \A i \in 1..Len(Before) :
                     IF Before[i].Id = p.Id
                     THEN Cart[i] = [Before[i] EXCEPT !.Quantity = Before[i].Quantity + 1]
                     ELSE Cart[i] = Before[i]
                /\ (Len(Before) = 1 /\ Before[1].Quantity = 1) =>
                     /\ Len(Cart) = 1
                     /\ Cart[1].Quantity = 2
                     /\ getItemCount(cartStore) = 2
           ELSE /\ Len(Cart) = Len(Before) + 1
                /\ SubSeq(Cart, 1, Len(Before)) = Before
                /\ Cart[Len(Cart)].Id = p.Id
                /\ Cart[Len(Cart)].Quantity = 1
                /\ Cart[Len(Cart)].FinalPrice = p.FinalPrice
                /\ Cart[Len(Cart)].Price = p.Price

\* the second add of the same Id to a cart that started empty
C2_Witness ==
  /\ cartLast.op = "addToCart"
  /\ cartLast.product # None
  /\ Len(Before) = 1
  /\ Before[1].Id = cartLast.productId
  /\ Before[1].Quantity = 1
  /\ Len(Cart) = 1
  /\ Cart[1].Quantity = 2

UnitPrice(line) == IF line.FinalPrice > 0 THEN line.FinalPrice ELSE line.Price

RECURSIVE SumQuantity(_)
SumQuantity(cart) ==
  IF cart = <<>> THEN 0 ELSE Head(cart).Quantity + SumQuantity(Tail(cart))

RECURSIVE SumPrice(_)
SumPrice(cart) ==
  IF cart = <<>> THEN 0
  ELSE UnitPrice(Head(cart)) * Head(cart).Quantity + SumPrice(Tail(cart))

\* C3: getItemCount() is the sum of the Quantity of the persisted lines (not
\* the number of lines) and getCartTotal() is the sum of price * Quantity, a
\* line without a price counting 0; both are 0 for an empty cart.
C3_CountAndTotal ==
  /\ getItemCount(cartStore) = SumQuantity(Cart)
  /\ getCartTotal(cartStore) = SumPrice(Cart)
  /\ Cart = <<>> => getItemCount(cartStore) = 0 /\ getCartTotal(cartStore) = 0

\* a cart of three lines, one without a price, whose count is not its length
C3_Witness ==
  /\ Len(Cart) = 3
  /\ \E i \in 1..3 : Cart[i].FinalPrice = 0 /\ Cart[i].Price = 0
  /\ \E i \in 1..3 : Cart[i].FinalPrice = 0 /\ Cart[i].Price > 0 /\ Cart[i].Quantity = 2
  /\ getItemCount(cartStore) > 3
  /\ getCartTotal(cartStore) > 0

\* C4: for every cart state, id and q <= 0, updateQuantity(id, q) leaves the
\* persisted cart as removeFromCart(id) would; for q > 0 and id present the
\* line's Quantity becomes exactly q and no other line changes.
C4_QuantityFloor ==
  /\ \A id \in ProductIds, q \in MinQty..MaxQty :
       IF q <= 0
       THEN saveCart(UpdateCart(Cart, id, q)) = saveCart(RemoveCart(Cart, id))
       ELSE HasLine(Cart, id) =>
              LET new == UpdateCart(Cart, id, q) IN
                /\ Len(new) = Len(Cart)
                /\ \A i \in 1..Len(Cart) :
                     IF Cart[i].Id = id
                     THEN new[i] = [Cart[i] EXCEPT !.Quantity = q]
                     ELSE new[i] = Cart[i]
  /\ cartLast.op = "updateQuantity" =>
       IF cartLast.quantity <= 0
       THEN /\ ~HasLine(Cart, cartLast.productId)
            /\ \A i \in 1..Len(Before) :
                 Before[i].Id # cartLast.productId =>
                   \E j \in 1..Len(Cart) : Cart[j] = Before[i]
            /\ Len(Cart) = Len(Before) - (IF HasLine(Before, cartLast.productId) THEN 1 ELSE 0)
       ELSE HasLine(Before, cartLast.productId) =>
              Cart[LineOf(Before, cartLast.productId)].Quantity = cartLast.quantity

\* updateQuantity(id, q) with q > 0 has overwritten a different Quantity, in a
\* cart with a second line
C4_Witness ==
  /\ cartLast.op = "updateQuantity"
  /\ cartLast.quantity = 1
  /\ Len(Before) = 2
  /\ HasLine(Before, cartLast.productId)
  /\ Before[LineOf(Before, cartLast.productId)].Quantity = 2
  /\ Cart[LineOf(Cart, cartLast.productId)].Quantity = 1

TagOf(op) ==
  CASE op = "addToCart" -> "add"
    [] op = "removeFromCart" -> "remove"
    [] op = "updateQuantity" -> "updateQuantity"
    [] op = "clearCart" -> "clear"

C6_PersistThenNotifyAll ==
  Mutating =>
    /\ \A k \in 1..Len(callLog) :
         /\ callLog[k].stored = Cart
         /\ callLog[k].cart = Cart
         /\ callLog[k].action = TagOf(cartLast.op)
    /\ \A i \in 1..Len(listeners["cartUpdated"]) :
         Cardinality({k \in 1..Len(callLog) : callLog[k].idx = i}) = 1
    /\ ~cartLast.threw

\* C7: subscribers are invoked in registration order, and when one of them
\* throws the subscribers registered after it are still invoked and the
\* persisted cart is the newly written cart.
C7_ThrowingSubscriberIsolated ==
  Mutating =>
    /\ Len(callLog) = Len(listeners["cartUpdated"])
    /\ \A k \in 1..Len(callLog) :
         callLog[k].idx = k /\ callLog[k].cb = listeners["cartUpdated"][k]
    /\ cartStore = saveCart(cartLast.ret)

(***************************************************************************)
(* Product form of the inventory page: FormValidator (formValidator.mjs)   *)
(* and InventoryFormHandler (inventoryFormHandler.mjs).                    *)
(*                                                                         *)
(* A string the validator only measures is a TLA+ string with its measures *)
(* tabulated; a string it parses (the price) is the sequence of its        *)
(* characters.  An error map is a function from the field names that have  *)
(* an entry to their messages; <<>> is {}.                                 *)
(***************************************************************************)
MaxPriceLen == 3

Digits == {"0", "1", "2", "3", "4", "5", "6", "7", "8", "9"}

\* parseInt of one decimal digit character
DigitValue(c) ==
  CASE c = "0" -> 0 [] c = "1" -> 1 [] c = "2" -> 2 [] c = "3" -> 3
    [] c = "4" -> 4 [] c = "5" -> 5 [] c = "6" -> 6 [] c = "7" -> 7
    [] c = "8" -> 8 [] c = "9" -> 9

RECURSIVE SkipWhiteSpace(_)
SkipWhiteSpace(s) ==
  IF s # <<>> /\ Head(s) = " " THEN SkipWhiteSpace(Tail(s)) ELSE s

\* how many decimal digits s starts with
RECURSIVE DigitRun(_)
DigitRun(s) ==
  IF s # <<>> /\ Head(s) \in Digits THEN 1 + DigitRun(Tail(s)) ELSE 0

\* the number a run of decimal digits writes; 0 for the empty run
RECURSIVE DecimalValue(_)
DecimalValue(s) ==
  IF s = <<>> THEN 0
  ELSE 10 * DecimalValue(SubSeq(s, 1, Len(s) - 1)) + DigitValue(s[Len(s)])

RECURSIVE Pow10(_)
Pow10(n) == IF n = 0 THEN 1 ELSE 10 * Pow10(n - 1)

NaN == [nan |-> TRUE, num |-> 0, den |-> 1]

\* parseFloat of a character sequence: leading white space is skipped, then
\* the longest prefix  [+-] digits [. digits]  is read and the rest is
\* ignored; NaN when that prefix holds no digit.  The number is num/den.
\* Exponents and "Infinity" are not among the characters used.
parseFloatChars(s) ==
  LET t == SkipWhiteSpace(s)
      signed == t # <<>> /\ Head(t) \in {"-", "+"}
      sign == IF t # <<>> /\ Head(t) = "-" THEN 0 - 1 ELSE 1
      u == IF signed THEN Tail(t) ELSE t
      ni == DigitRun(u)
      rest == SubSeq(u, ni + 1, Len(u))
      dotted == rest # <<>> /\ Head(rest) = "."
      nf == IF dotted THEN DigitRun(Tail(rest)) ELSE 0
  IN IF ni + nf = 0 THEN NaN
     ELSE [nan |-> FALSE,
           num |-> sign * (DecimalValue(SubSeq(u, 1, ni)) * Pow10(nf)
                           + DecimalValue(SubSeq(rest, 2, nf + 1))),
           den |-> Pow10(nf)]

PriceCeiling == 99999

\* validatePrice: the entry it leaves in this.errors; price is None for
\* null/undefined and Some(characters) for a string
validatePrice(price) ==
  IF price = None \/ price[1] = <<>>
  THEN [price |-> "Price is required"]
  ELSE LET priceNum == parseFloatChars(price[1]) IN
         IF priceNum.nan THEN [price |-> "Price must be a valid number"]
         ELSE IF priceNum.num <= 0 THEN [price |-> "Price must be greater than 0"]
         ELSE IF priceNum.num > PriceCeiling * priceNum.den
         THEN [price |-> "Price cannot exceed $99,999"]
         ELSE <<>>

LowerLetters == {"a", "b", "c", "d", "e", "f", "g", "h", "i", "j", "k", "l", "m", "n", "o", "p", "q", "r", "s", "t", "u", "v", "w", "x", "y", "z"}
UpperLetters == {"A", "B", "C", "D", "E", "F", "G", "H", "I", "J", "K", "L", "M", "N", "O", "P", "Q", "R", "S", "T", "U", "V", "W", "X", "Y", "Z"}

\* every character of s is in set
AllIn(s, set) == \A i \in 1..Len(s) : s[i] \in set

\* String.prototype.trim
RECURSIVE trim(_)
trim(s) ==
  IF s = <<>> THEN s
  ELSE IF Head(s) = " " THEN trim(Tail(s))
  ELSE IF s[Len(s)] = " " THEN trim(SubSeq(s, 1, Len(s) - 1))
  ELSE s

\* the characters of the price and image URL strings the form is given
Chars(str) ==
  CASE str = "" -> <<>>
    [] str = "abc" -> <<"a", "b", "c">>
    [] str = "50" -> <<"5", "0">>
    [] str = "75" -> <<"7", "5">>
    [] str = "120" -> <<"1", "2", "0">>
    [] str = "https://x/a.jpg" -> <<"h", "t", "t", "p", "s", ":", "/", "/", "x", "/", "a", ".", "j", "p", "g">>
    [] str = "https://x/b.png" -> <<"h", "t", "t", "p", "s", ":", "/", "/", "x", "/", "b", ".", "p", "n", "g">>
    [] str = "https://x/q.webp" -> <<"h", "t", "t", "p", "s", ":", "/", "/", "x", "/", "q", ".", "w", "e", "b", "p">>
    [] str = "https://x/r.gif" -> <<"h", "t", "t", "p", "s", ":", "/", "/", "x", "/", "r", ".", "g", "i", "f">>

\* str.trim().length of the strings the form is given
TrimLength(str) ==
  CASE str = "" -> 0
    [] str = "  " -> 0
    [] str = "Tent A" -> 6
    [] str = "Pack B" -> 6
    [] str = "Tent Q" -> 6
    [] str = "Tent R" -> 6
    [] str = "Two person tent" -> 15
    [] str = "Forty litre pack" -> 16
    [] str = "Light four season tent" -> 22
    [] str = "Roomy family tent" -> 17
    [] str = "tents" -> 5
    [] str = "backpacks" -> 9
    [] str = "https://x/a.jpg" -> 15
    [] str = "https://x/b.png" -> 15
    [] str = "https://x/q.webp" -> 16
    [] str = "https://x/r.gif" -> 15

\* the letters in alphabetical order
LowerAlphabet == <<"a", "b", "c", "d", "e", "f", "g", "h", "i", "j", "k", "l", "m", "n", "o", "p", "q", "r", "s", "t", "u", "v", "w", "x", "y", "z">>
UpperAlphabet == <<"A", "B", "C", "D", "E", "F", "G", "H", "I", "J", "K", "L", "M", "N", "O", "P", "Q", "R", "S", "T", "U", "V", "W", "X", "Y", "Z">>

\* String.prototype.toLowerCase
toLowerCase(s) ==
  [i \in 1..Len(s) |->
     IF s[i] \in UpperLetters
     THEN LowerAlphabet[CHOOSE k \in 1..Len(UpperAlphabet) : UpperAlphabet[k] = s[i]]
     ELSE s[i]]

\* String.prototype.includes
includes(s, t) ==
  \E i \in 0..(Len(s) - Len(t)) : SubSeq(s, i + 1, i + Len(t)) = t

\* the part of s before the first character of stops, all of s without one
UpTo(s, stops) ==
  IF \E i \in 1..Len(s) : s[i] \in stops
  THEN SubSeq(s, 1, (CHOOSE i \in 1..Len(s) :
                       s[i] \in stops /\ \A j \in 1..(i - 1) : s[j] \notin stops) - 1)
  ELSE s

\* URL parser, scheme state: the position of the ":" that ends a scheme of
\* a letter followed by letters, digits, "+", "-" and "."; 0 without one
SchemeChars == LowerLetters \cup UpperLetters \cup Digits \cup {"+", "-", "."}

SchemeEnd(s) ==
  IF s # <<>> /\ s[1] \in LowerLetters \cup UpperLetters
       /\ \E i \in 1..Len(s) : s[i] = ":" /\ AllIn(SubSeq(s, 1, i - 1), SchemeChars)
  THEN CHOOSE i \in 1..Len(s) : s[i] = ":" /\ AllIn(SubSeq(s, 1, i - 1), SchemeChars)
  ELSE 0

\* URL parser: the schemes whose URLs must have a host (file: URLs are not
\* among the values explored)
SpecialSchemes == {<<"h", "t", "t", "p">>, <<"h", "t", "t", "p", "s">>, <<"f", "t", "p">>, <<"w", "s">>, <<"w", "s", "s">>}

\* URL parser, special authority ignore slashes state
RECURSIVE SkipSlashes(_)
SkipSlashes(s) ==
  IF s # <<>> /\ Head(s) \in {"/", "\\"} THEN SkipSlashes(Tail(s)) ELSE s

\* URL parser, host state: the characters of a domain (hosts with a port,
\* credentials, digits-only labels or escapes are not among the values
\* explored)
HostChars == LowerLetters \cup UpperLetters \cup Digits \cup {".", "-"}

\* new URL(string) does not throw.  Without a base URL the string, with
\* leading and trailing spaces stripped, needs a scheme; a special scheme
\* needs a non-empty host of domain characters after any number of
\* slashes; another scheme takes an authority after "//", which may be
\* empty but not hold a space, and any opaque path otherwise.
isValidUrl(string) ==
  LET input == trim(string)
      colon == SchemeEnd(input)
      scheme == toLowerCase(SubSeq(input, 1, colon - 1))
      rest == SubSeq(input, colon + 1, Len(input))
  IN IF colon = 0 THEN FALSE
     ELSE IF scheme \in SpecialSchemes
     THEN LET host == UpTo(SkipSlashes(rest), {"/", "\\", "?", "#"})
          IN host # <<>> /\ AllIn(host, HostChars)
     ELSE IF Len(rest) >= 2 /\ rest[1] = "/" /\ rest[2] = "/"
     THEN LET authority == UpTo(SubSeq(rest, 3, Len(rest)), {"/", "?", "#"})
          IN \A i \in 1..Len(authority) : authority[i] # " "
     ELSE TRUE

imageExtensions == {<<".", "j", "p", "g">>, <<".", "j", "p", "e", "g">>, <<".", "p", "n", "g">>, <<".", "g", "i", "f">>, <<".", "w", "e", "b", "p">>}

\* imageExtensions.some((ext) => url.includes(ext))
isValidImageUrl(imageUrl) ==
  LET url == toLowerCase(imageUrl) IN
    \E ext \in imageExtensions : includes(url, ext)

validateProductName(name) ==
  IF name = "" \/ TrimLength(name) = 0
  THEN [productName |-> "Product name is required"]
  ELSE IF TrimLength(name) < 3
  THEN [productName |-> "Product name must be at least 3 characters"]
  ELSE IF TrimLength(name) > 100
  THEN [productName |-> "Product name cannot exceed 100 characters"]
  ELSE <<>>

validCategories == {"tents", "backpacks", "sleeping-bags"}

validateCategory(cat) ==
  IF cat = "" \/ TrimLength(cat) = 0
  THEN [category |-> "Please select a category"]
  ELSE IF cat \notin validCategories
  THEN [category |-> "Category must be one of: tents, backpacks, sleeping-bags"]
  ELSE <<>>

validateDescription(description) ==
  IF description = "" \/ TrimLength(description) = 0
  THEN [description |-> "Description is required"]
  ELSE IF TrimLength(description) < 10
  THEN [description |-> "Description must be at least 10 characters"]
  ELSE IF TrimLength(description) > 500
  THEN [description |-> "Description cannot exceed 500 characters"]
  ELSE <<>>

validateImageUrl(imageUrl) ==
  IF imageUrl = <<>> \/ trim(imageUrl) = <<>>
  THEN [imageUrl |-> "Image URL is required"]
  ELSE IF ~isValidUrl(imageUrl)
  THEN [imageUrl |-> "Image URL must be a valid URL"]
  ELSE IF ~isValidImageUrl(imageUrl)
  THEN [imageUrl |-> "Image URL must point to a valid image (jpg, png, gif, webp)"]
  ELSE <<>>

\* FormValidator.validateForm: this.errors starts empty and every field
\* validator adds its own entry
FormValidator_validateForm(formData) ==
  LET errors ==
        Spread(Spread(Spread(Spread(validateProductName(formData.productName),
                                    validateCategory(formData.category)),
                             validatePrice(Some(Chars(formData.price)))),
                      validateDescription(formData.description)),
               validateImageUrl(Chars(formData.imageUrl)))
  IN [isValid |-> (DOMAIN errors = {}), errors |-> errors]

\* what form.reset() leaves in the five fields
BlankFields ==
  [productName |-> "", category |-> "", price |-> "",
   description |-> "", imageUrl |-> ""]

\* what is typed into the four text fields
Typed ==
  { [productName |-> "Tent Q", price |-> "75",
     description |-> "Light four season tent", imageUrl |-> "https://x/q.webp"],
    [productName |-> "Tent R", price |-> "120",
     description |-> "Roomy family tent", imageUrl |-> "https://x/r.gif"],
    [productName |-> "  ", price |-> "abc",
     description |-> "Roomy family tent", imageUrl |-> "https://x/r.gif"] }

\* getFormData: the five field values
getFormData == form.fields

\* input.value = number: the number written in decimal
NumberToString(n) == ToString(n)

\* populateFormForEdit: the fields are filled from the stored record and
\* the handler remembers its Id
populateFormForEdit(product) ==
  form' = [event |-> "edit",
           editingProductId |-> Some(product.Id),
           fields |-> [productName |-> product.Name,
                       category |-> IF product.category = "" THEN "tents"
                                    ELSE product.category,
                       price |-> NumberToString(product.FinalPrice),
                       description |-> product.DescriptionHtmlSimple,
                       imageUrl |-> product.Image]]

\* resetForm after the event named
resetForm(event) ==
  form' = [event |-> event, editingProductId |-> None, fields |-> BlankFields]

\* InventoryRenderer.handleEdit: the Edit button of a listed record
\* dispatches edit-product with getById(productId)
handleEdit(productId) ==
  /\ IndexOfId(inventory, productId) > 0
  /\ populateFormForEdit(inventory[IndexOfId(inventory, productId)])
  /\ UNCHANGED invVars

\* typing in the text fields
typeFields(typed) ==
  /\ form' = [form EXCEPT !.event = "type", !.fields = Spread(form.fields, typed)]
  /\ UNCHANGED invVars

\* the change handler of the category select
changeCategory(newCategory) ==
  /\ form' = [form EXCEPT !.event = "category", !.fields.category = newCategory]
  /\ switchCategory(newCategory)

\* the Cancel button
cancelEdit ==
  /\ resetForm("cancel")
  /\ UNCHANGED invVars

handleFormSubmit(now, ok) ==
  LET formData == getFormData
      validation == FormValidator_validateForm(formData)
  IN IF ~validation.isValid
     THEN /\ form' = [form EXCEPT !.event = "submit"]
          /\ UNCHANGED invVars
     ELSE /\ now <= MaxClock
          /\ IF form.editingProductId # None
             THEN updateProduct(form.editingProductId[1], formData, now, ok)
             ELSE addProduct(formData, now, ok)
          /\ IF invLast'.success
             THEN resetForm("submit")
             ELSE form' = [form EXCEPT !.event = "submit"]

FormInit ==
  form = [event |-> "load", editingProductId |-> None, fields |-> BlankFields]

InitForm == InvInit /\ FormInit /\ CartIdle /\ CheckoutIdle /\ PureIdle /\ UiIdle

EditStep == \E productId \in Ids : handleEdit(productId)
TypeStep == \E typed \in Typed : typeFields(typed)
CategoryStep == \E newCategory \in Categories : changeCategory(newCategory)
SubmitStep == \E now \in {clock + 1}, ok \in BOOLEAN : handleFormSubmit(now, ok)

NextForm ==
  \/ EditStep /\ UNCHANGED <<cartVars, checkoutVars, pureVars, uiVars>>
  \/ TypeStep /\ UNCHANGED <<cartVars, checkoutVars, pureVars, uiVars>>
  \/ CategoryStep /\ UNCHANGED <<cartVars, checkoutVars, pureVars, uiVars>>
  \/ cancelEdit /\ UNCHANGED <<cartVars, checkoutVars, pureVars, uiVars>>
  \/ SubmitStep /\ UNCHANGED <<cartVars, checkoutVars, pureVars, uiVars>>

SpecForm == InitForm /\ [][NextForm]_vars

(***************************************************************************)
(* Properties of the product form                                          *)
(***************************************************************************)
\* the step submits valid values for the record being edited, the record is
\* in the active list and the store write succeeds
EditSubmitted ==
  /\ form.editingProductId # None
  /\ form'.event = "submit"
  /\ clock' = clock + 1
  /\ invLast'.op = "updateProduct"
  /\ invLast'.success

\* the values createInventoryItem shows for a record
Shown(product) ==
  [Name |-> product.Name, FinalPrice |-> product.FinalPrice,
   DescriptionHtmlSimple |-> product.DescriptionHtmlSimple,
   Image |-> product.Image]

\* the submitted values as the list would show them
Submitted(formData) ==
  [Name |-> formData.productName, FinalPrice |-> parseFloat(formData.price),
   DescriptionHtmlSimple |-> formData.description, Image |-> formData.imageUrl]

\* C11: after Edit, valid changes and a submit that is stored with success,
\* the record with the edited Id shows the submitted name, price,
\* description and image URL, the list is persisted and no record is added.
C11_EditShowsSubmitted ==
  [][EditSubmitted =>
       LET productId == form.editingProductId[1]
           i == IndexOfId(inventory', productId)
       IN /\ i > 0
          /\ Shown(inventory'[i]) = Submitted(form.fields)
          /\ loadFromStorage(invStore', category') = inventory'
          /\ Len(inventory') = Len(inventory)]_vars

ImportRejected ==
  /\ ~invLast'.success
  /\ inventory' = inventory
  /\ invStore' = invStore

StripWhiteSpace(s) == SelectSeq(s, LAMBDA c : c # " ")

\* Object.keys(this.validationRules), in insertion order
RuleOrder ==
  <<"firstName", "lastName", "email", "phone", "address", "city", "state",
    "zipCode", "cardName", "cardNumber", "expiryDate", "cvv">>

\* initializeRules; pattern and customValidator are looked up by field name
validationRules ==
  [firstName  |-> [required |-> TRUE, minLength |-> 2, maxLength |-> 50, pattern |-> TRUE],
   lastName   |-> [required |-> TRUE, minLength |-> 2, maxLength |-> 50, pattern |-> TRUE],
   email      |-> [required |-> TRUE, pattern |-> TRUE],
   phone      |-> [required |-> TRUE, minLength |-> 10, pattern |-> TRUE],
   address    |-> [required |-> TRUE, minLength |-> 5, maxLength |-> 100],
   city       |-> [required |-> TRUE, minLength |-> 2, maxLength |-> 50],
   state      |-> [required |-> TRUE, minLength |-> 2, maxLength |-> 2, pattern |-> TRUE],
   zipCode    |-> [required |-> TRUE, pattern |-> TRUE],
   cardName   |-> [required |-> TRUE, minLength |-> 2, maxLength |-> 50],
   cardNumber |-> [required |-> TRUE, pattern |-> TRUE, customValidator |-> TRUE],
   expiryDate |-> [required |-> TRUE, pattern |-> TRUE, customValidator |-> TRUE],
   cvv        |-> [required |-> TRUE, pattern |-> TRUE]]

\* /^[^\s@]+@[^\s@]+\.[^\s@]+$/
EmailPattern(s) ==
  \E i \in 1..Len(s), j \in 1..Len(s) :
    /\ 1 < i /\ i + 1 < j /\ j < Len(s)
    /\ s[i] = "@" /\ s[j] = "."
    /\ \A k \in 1..Len(s) : (k # i) => (s[k] \notin {" ", "@"})

\* /^\d{5}(-\d{4})?$/
ZipPattern(s) ==
  \/ Len(s) = 5 /\ AllIn(s, Digits)
  \/ /\ Len(s) = 10
     /\ AllIn(SubSeq(s, 1, 5), Digits)
     /\ s[6] = "-"
     /\ AllIn(SubSeq(s, 7, 10), Digits)

\* /^(0[1-9]|1[0-2])\/\d{2}$/
ExpiryPattern(s) ==
  /\ Len(s) = 5
  /\ \/ s[1] = "0" /\ s[2] \in Digits \ {"0"}
     \/ s[1] = "1" /\ s[2] \in {"0", "1", "2"}
  /\ s[3] = "/"
  /\ s[4] \in Digits /\ s[5] \in Digits

\* rules.pattern.test(value)
PatternTest(fieldName, s) ==
  CASE fieldName \in {"firstName", "lastName"} ->
         Len(s) >= 1 /\ AllIn(s, LowerLetters \cup UpperLetters \cup {" ", "'", "-"})
    [] fieldName = "email" -> EmailPattern(s)
    [] fieldName = "phone" ->
         Len(s) >= 1 /\ AllIn(s, Digits \cup {" ", "-", "(", ")", "+"})
    [] fieldName = "state" -> Len(s) = 2 /\ AllIn(s, UpperLetters)
    [] fieldName = "zipCode" -> ZipPattern(s)
    [] fieldName = "cardNumber" ->
         Len(s) >= 13 /\ Len(s) <= 19 /\ AllIn(s, Digits \cup {" "})
    [] fieldName = "expiryDate" -> ExpiryPattern(s)
    [] fieldName = "cvv" -> Len(s) >= 3 /\ Len(s) <= 4 /\ AllIn(s, Digits)

\* formatFieldName: a space before each capital, first letter upper-cased
formatFieldName(fieldName) ==
  CASE fieldName = "firstName" -> "First Name"
    [] fieldName = "lastName" -> "Last Name"
    [] fieldName = "email" -> "Email"
    [] fieldName = "phone" -> "Phone"
    [] fieldName = "address" -> "Address"
    [] fieldName = "city" -> "City"
    [] fieldName = "state" -> "State"
    [] fieldName = "zipCode" -> "Zip Code"
    [] fieldName = "cardName" -> "Card Name"
    [] fieldName = "cardNumber" -> "Card Number"
    [] fieldName = "expiryDate" -> "Expiry Date"
    [] fieldName = "cvv" -> "Cvv"

\* every field that has a pattern has its own message
getPatternErrorMessage(fieldName) ==
  CASE fieldName = "firstName" ->
         "First name must contain only letters, spaces, apostrophes, and hyphens"
    [] fieldName = "lastName" ->
         "Last name must contain only letters, spaces, apostrophes, and hyphens"
    [] fieldName = "email" -> "Please enter a valid email address"
    [] fieldName = "phone" -> "Phone number must be at least 10 digits"
    [] fieldName = "state" -> "State must be 2-letter abbreviation (e.g., UT, CA)"
    [] fieldName = "zipCode" -> "Zip code must be 5 digits or 5+4 format"
    [] fieldName = "cardNumber" -> "Card number must be 13-19 digits"
    [] fieldName = "expiryDate" -> "Expiry date must be in MM/YY format"
    [] fieldName = "cvv" -> "CVV must be 3-4 digits"

\* a Luhn loop that starts doubling at the rightmost digit
RECURSIVE LuhnSumFromFirst(_, _)
LuhnSumFromFirst(cleaned, isEven) ==
  IF cleaned = <<>> THEN 0
  ELSE LET digit == DigitValue(cleaned[Len(cleaned)])
           doubled == IF 2 * digit > 9 THEN 2 * digit - 9 ELSE 2 * digit
       IN (IF ~isEven THEN doubled ELSE digit)
            + LuhnSumFromFirst(SubSeq(cleaned, 1, Len(cleaned) - 1), ~isEven)

\* the loop of validateCardNumber: from the last character to the first,
\* every second digit doubled and reduced by 9 when above 9
RECURSIVE LuhnSum(_, _)
LuhnSum(cleaned, isEven) ==
  IF cleaned = <<>> THEN 0
  ELSE LET digit == DigitValue(cleaned[Len(cleaned)])
           doubled == IF 2 * digit > 9 THEN 2 * digit - 9 ELSE 2 * digit
       IN (IF isEven THEN doubled ELSE digit)
            + LuhnSum(SubSeq(cleaned, 1, Len(cleaned) - 1), ~isEven)

\* validateCardNumber: None is null
validateCardNumber(cardNumber) ==
  LET cleaned == StripWhiteSpace(cardNumber) IN
    IF Len(cleaned) < 13 \/ Len(cleaned) > 19
    THEN Some("Credit card number must be 13-19 digits")
    ELSE IF LuhnSum(cleaned, FALSE) % 10 # 0
    THEN Some("Credit card number is invalid")
    ELSE None

\* an expiry check that also rejects the current month
validateExpiryDateStrict(expiryDate, now) ==
  LET currentYear == now.fullYear % 100
      currentMonth == now.month + 1
      expireYear == DecimalValue(SubSeq(expiryDate, 4, 5))
      expireMonth == DecimalValue(SubSeq(expiryDate, 1, 2))
  IN IF expireYear < currentYear
        \/ (expireYear = currentYear /\ expireMonth <= currentMonth)
     THEN Some("Card has expired")
     ELSE None

\* validateExpiryDate on a value the pattern has accepted: split("/") gives
\* the two digits before and the two after the slash.  now is new Date():
\* getFullYear() and getMonth() (0 for January)
validateExpiryDate(expiryDate, now) ==
  LET currentYear == now.fullYear % 100
      currentMonth == now.month + 1
      expireYear == DecimalValue(SubSeq(expiryDate, 4, 5))
      expireMonth == DecimalValue(SubSeq(expiryDate, 1, 2))
  IN IF expireYear < currentYear
        \/ (expireYear = currentYear /\ expireMonth < currentMonth)
     THEN Some("Card has expired")
     ELSE None

\* rules.customValidator(value)
customValidator(fieldName, s, now) ==
  CASE fieldName = "cardNumber" -> validateCardNumber(s)
    [] fieldName = "expiryDate" -> validateExpiryDate(s, now)

\* a checker that tests the pattern before the lengths
fieldErrorPatternFirst(fieldName, value, now) ==
  LET rules == validationRules[fieldName]
      name == formatFieldName(fieldName)
  IN IF value = None \/ value[1] = <<>> \/ trim(value[1]) = <<>>
     THEN Some(name \o " is required")
     ELSE IF "pattern" \in DOMAIN rules /\ ~PatternTest(fieldName, value[1])
     THEN Some(getPatternErrorMessage(fieldName))
     ELSE IF "minLength" \in DOMAIN rules /\ Len(value[1]) < rules.minLength
     THEN Some(name \o " must be at least " \o ToString(rules.minLength) \o " characters")
     ELSE IF "maxLength" \in DOMAIN rules /\ Len(value[1]) > rules.maxLength
     THEN Some(name \o " cannot exceed " \o ToString(rules.maxLength) \o " characters")
     ELSE IF "customValidator" \in DOMAIN rules
     THEN customValidator(fieldName, value[1], now)
     ELSE None

\* the message validateField assigns to this.errors[fieldName] for a field
\* that has rules, None when it assigns nothing
fieldError(fieldName, value, now) ==
  LET rules == validationRules[fieldName]
      name == formatFieldName(fieldName)
  IN IF rules.required /\ (value = None \/ value[1] = <<>> \/ trim(value[1]) = <<>>)
     THEN Some(name \o " is required")
     ELSE IF "minLength" \in DOMAIN rules /\ Len(value[1]) < rules.minLength
     THEN Some(name \o " must be at least " \o ToString(rules.minLength) \o " characters")
     ELSE IF "maxLength" \in DOMAIN rules /\ Len(value[1]) > rules.maxLength
     THEN Some(name \o " cannot exceed " \o ToString(rules.maxLength) \o " characters")
     ELSE IF "pattern" \in DOMAIN rules /\ ~PatternTest(fieldName, value[1])
     THEN Some(getPatternErrorMessage(fieldName))
     ELSE IF "customValidator" \in DOMAIN rules
     THEN customValidator(fieldName, value[1], now)
     ELSE None

\* errors[fieldName] = message
WithError(errors, fieldName, message) ==
  [f \in DOMAIN errors \cup {fieldName} |->
     IF f = fieldName THEN message ELSE errors[f]]

\* delete errors[fieldName]
WithoutError(errors, fieldName) ==
  [f \in DOMAIN errors \ {fieldName} |-> errors[f]]

\* validateField: this.errors after the call, given this.errors before it
validateFieldOn(errors, fieldName, value, now) ==
  IF fieldName \notin DOMAIN validationRules THEN errors
  ELSE IF fieldError(fieldName, value, now) = None THEN errors
  ELSE WithError(errors, fieldName, fieldError(fieldName, value, now)[1])

\* formData[fieldName]: undefined for a key the form lacks
ValueOf(formData, fieldName) ==
  IF fieldName \in DOMAIN formData THEN formData[fieldName] ELSE None

\* the forEach of validateForm over the first n rule keys
RECURSIVE validateEach(_, _, _)
validateEach(formData, n, now) ==
  IF n = 0 THEN <<>>
  ELSE validateFieldOn(validateEach(formData, n - 1, now), RuleOrder[n],
                       ValueOf(formData, RuleOrder[n]), now)

getFieldError(errors, fieldName) ==
  IF fieldName \in DOMAIN errors THEN Some(errors[fieldName]) ELSE None

hasFieldError(errors, fieldName) == fieldName \in DOMAIN errors

\* formatCardNumber: white space removed, a space put after every four
\* digits in a row, the result trimmed
RECURSIVE GroupsOfFour(_)
GroupsOfFour(s) ==
  IF Len(s) >= 4 /\ AllIn(SubSeq(s, 1, 4), Digits)
  THEN SubSeq(s, 1, 4) \o <<" ">> \o GroupsOfFour(SubSeq(s, 5, Len(s)))
  ELSE IF s = <<>> THEN s
  ELSE <<Head(s)>> \o GroupsOfFour(Tail(s))

formatCardNumber(value) == trim(GroupsOfFour(StripWhiteSpace(value)))

(***************************************************************************)
(* The validator as an object: its calls and the values they are given     *)
(***************************************************************************)
MaxCalls == 3

\* n times the character c
Repeat(c, n) == [i \in 1..n |-> c]

\* new Date() while the checkout page is open: November 2026
Today == [fullYear |-> 2026, month |-> 10]

\* a form every field of which passes
ValidForm ==
  [firstName |-> Some(<<"J", "o", "h", "n">>),
   lastName |-> Some(<<"D", "o", "e">>),
   email |-> Some(<<"j", "o", "h", "n", "@", "e", "x", "a", "m", "p", "l", "e", ".", "c", "o", "m">>),
   phone |-> Some(<<"1", "2", "3", "4", "5", "6", "7", "8", "9", "0">>),
   address |-> Some(<<"1", "2", "3", " ", "M", "a", "i", "n", " ", "S", "t">>),
   city |-> Some(<<"P", "r", "o", "v", "o">>),
   state |-> Some(<<"U", "T">>),
   zipCode |-> Some(<<"8", "4", "6", "0", "1">>),
   cardName |-> Some(<<"J", "o", "h", "n", " ", "D", "o", "e">>),
   cardNumber |-> Some(<<"4", "5", "3", "2", "0", "1", "5", "1", "1", "2", "8", "3", "0", "3", "6", "6">>),
   expiryDate |-> Some(<<"1", "2", "/", "2", "6">>),
   cvv |-> Some(<<"1", "2", "3">>)]

\* values tried for each field, beside the valid one
FieldValues ==
  [firstName |->
     { None,
       Some(<<>>),
       Some(<<" ", " ", " ">>),
       Some(<<"J">>),
       Some(<<"J", "0", "h", "n">>),
       Some(<<"J", "e", "a", "n", "-", "P", "i", "e", "r", "r", "e">>),
       Some(<<"O", "'", "N", "e", "i", "l">>),
       Some(Repeat("a", 51)) },
   lastName |->
     { None,
       Some(<<>>),
       Some(<<"D">>),
       Some(<<"D", "o", "e", "2">>),
       Some(Repeat("a", 51)) },
   email |->
     { None,
       Some(<<>>),
       Some(<<"i", "n", "v", "a", "l", "i", "d">>),
       Some(<<"j", "o", "h", "n", "@", "e", "x", "a", "m", "p", "l", "e">>),
       Some(<<"@", "e", "x", "a", "m", "p", "l", "e", ".", "c", "o", "m">>),
       Some(<<"j", "o", "h", "n", " ", "@", "e", "x", "a", "m", "p", "l", "e", ".", "c", "o", "m">>),
       Some(<<"j", "o", "h", "n", "@", "m", "a", "i", "l", ".", "e", "x", "a", "m", "p", "l", "e", ".", "c", "o", "m">>),
       Some(<<"a", "@", "b", "@", "c", ".", "d">>) },
   phone |->
     { None,
       Some(<<>>),
       Some(<<"1", "2", "3", "4", "5">>),
       Some(<<"1", "2", "3", "-", "4", "5", "6", "-", "7", "8", "9", "0">>),
       Some(<<"(", "1", "2", "3", ")", " ", "4", "5", "6", "-", "7", "8", "9", "0">>),
       Some(<<"1", "2", "3", "4", "5", "6", "7", "8", "9", "a">>) },
   address |->
     { None,
       Some(<<>>),
       Some(<<"M", "a", "i", "n">>),
       Some(<<"1", "2", "3", "4", "5">>),
       Some(Repeat("a", 101)) },
   city |->
     { None,
       Some(<<>>),
       Some(<<"X">>),
       Some(<<"S", "a", "l", "t", " ", "L", "a", "k", "e", " ", "C", "i", "t", "y">>),
       Some(Repeat("a", 51)) },
   state |->
     { None,
       Some(<<>>),
       Some(<<"U">>),
       Some(<<"u", "t">>),
       Some(<<"U", "1">>),
       Some(<<"U", "T", "A">>) },
   zipCode |->
     { None,
       Some(<<>>),
       Some(<<"8", "4", "6", "0">>),
       Some(<<"8", "4", "6", "0", "1", "-", "1", "2", "3", "4">>),
       Some(<<"8", "4", "6", "0", "1", "-", "1", "2">>),
       Some(<<"a", "b", "c", "d", "e">>) },
   cardName |->
     { None,
       Some(<<>>),
       Some(<<"J">>),
       Some(Repeat("a", 51)) },
   cardNumber |->
     { None,
       Some(<<>>),
       Some(<<"4", "5", "3", "2", " ", "0", "1", "5", "1", " ", "1", "2", "8", "3", " ", "0", "3", "6", "6">>),
       Some(<<"4", "5", "3", "2", "0", "1", "5", "1", "1", "2", "8", "3", "0", "3", "6", "7">>),
       Some(<<"1", "2", "3", "4", "5", "6", "7", "8", "9", "0", "1", "2">>),
       Some(<<"4", "5", "3", "2", "-", "0", "1", "5", "1", "-", "1", "2", "8", "3", "-", "0", "3", "6", "6">>),
       Some(<<"4", "5", "3", "2", "0", "1", "5", "1", " ", "1", "2", "8", "3", "0", "3", "6", "6", " ", " ", " ", " ">>) },
   expiryDate |->
     { None,
       Some(<<>>),
       Some(<<"0", "1", "/", "1", "9">>),
       Some(<<"1", "3", "/", "2", "5">>),
       Some(<<"1", "2", "-", "2", "5">>),
       Some(<<"1", "/", "2", "5">>),
       Some(<<"1", "1", "/", "2", "6">>),
       Some(<<"1", "0", "/", "2", "6">>),
       Some(<<"0", "0", "/", "2", "7">>) },
   cvv |->
     { None,
       Some(<<>>),
       Some(<<"1", "2", "3", "4">>),
       Some(<<"1", "2">>),
       Some(<<"1", "2", "3", "4", "5">>),
       Some(<<"a", "b", "c">>) }]

EmptyStrings == [f \in DOMAIN ValidForm |-> Some(<<>>)]
NullValues == [f \in DOMAIN ValidForm |-> None]
NoKeys == <<>>
WithNickname ==
  [f \in DOMAIN ValidForm \cup {"nickname"} |->
     IF f = "nickname" THEN Some(<<>>) ELSE ValidForm[f]]

\* the forms handed to validateForm: the valid one with one field changed,
\* and the forms with nothing in them
Forms ==
  {ValidForm, EmptyStrings, NullValues, NoKeys, WithNickname}
    \cup UNION { {[ValidForm EXCEPT ![f] = v] : v \in FieldValues[f]} :
                 f \in DOMAIN ValidForm }

\* object references
Refs == {1, 2}

\* the object a result held by the caller points to
Held == IF result = None THEN {} ELSE {result[1].errors}

\* a reference to a new object: one that no object in keep has
Fresh(keep) == CHOOSE r \in Refs : r \notin keep

\* the heap once this.errors = {} has made object r and filled it with
\* errors; objects that nothing points to any more are gone
Alloc(r, errors, keep) ==
  [q \in keep \cup {r} |-> IF q = r THEN errors ELSE heap[q]]

\* value.length or value.trim() is read on null or undefined: only a field
\* whose rule is not required gets that far with such a value
fieldThrows(fieldName, value) ==
  /\ fieldName \in DOMAIN validationRules
  /\ value = None
  /\ ~validationRules[fieldName].required
  /\ DOMAIN validationRules[fieldName] \cap {"minLength", "maxLength"} # {}

\* the first rule key at which the forEach of validateForm throws, 0 if none
ThrowIndex(formData) ==
  LET at == {n \in 1..Len(RuleOrder) :
               fieldThrows(RuleOrder[n], ValueOf(formData, RuleOrder[n]))}
  IN IF at = {} THEN 0 ELSE CHOOSE n \in at : \A m \in at : n <= m

\* validateForm(formData); keep says whether the caller keeps the result
validateForm(formData, now, keep) ==
  LET n == ThrowIndex(formData)
      kept == IF keep /\ n = 0 THEN {} ELSE Held
      r == Fresh(kept)
      errors == validateEach(formData, IF n = 0 THEN Len(RuleOrder) ELSE n - 1, now)
      isValid == DOMAIN errors = {}
  IN /\ calls < MaxCalls
     /\ calls' = calls + 1
     /\ thisErrors' = r
     /\ heap' = Alloc(r, errors, kept)
     /\ result' = IF keep /\ n = 0
                  THEN Some([isValid |-> isValid, errors |-> r,
                             formData |-> formData, returned |-> errors])
                  ELSE result
     /\ valLast' = [op |-> "validateForm", formData |-> formData, threw |-> (n # 0),
                    ret |-> IF n = 0 THEN Some([isValid |-> isValid, errors |-> errors])
                            ELSE None]

validateField(fieldName, value, now) ==
  /\ calls < MaxCalls
  /\ calls' = calls + 1
  /\ heap' = IF fieldThrows(fieldName, value) THEN heap
             ELSE [heap EXCEPT ![thisErrors] =
                     validateFieldOn(heap[thisErrors], fieldName, value, now)]
  /\ valLast' = [op |-> "validateField", fieldName |-> fieldName, value |-> value,
                 threw |-> fieldThrows(fieldName, value)]
  /\ UNCHANGED <<thisErrors, result>>

clearErrors ==
  /\ calls < MaxCalls
  /\ calls' = calls + 1
  /\ thisErrors' = Fresh(Held)
  /\ heap' = Alloc(Fresh(Held), <<>>, Held)
  /\ valLast' = [op |-> "clearErrors"]
  /\ UNCHANGED result

clearFieldError(fieldName) ==
  /\ calls < MaxCalls
  /\ calls' = calls + 1
  /\ heap' = [heap EXCEPT ![thisErrors] = WithoutError(heap[thisErrors], fieldName)]
  /\ valLast' = [op |-> "clearFieldError", fieldName |-> fieldName]
  /\ UNCHANGED <<thisErrors, result>>

\* constructor
CheckoutInit ==
  /\ heap = [r \in {1} |-> <<>>]
  /\ thisErrors = 1
  /\ result = None
  /\ valLast = [op |-> "new"]
  /\ calls = 0

\* one validator given a few forms and single values in any order
FormsTried ==
  {ValidForm, EmptyStrings, [ValidForm EXCEPT !.email = Some(<<"i", "n", "v", "a", "l", "i", "d">>)]}

FieldsTried ==
  [firstName |-> {None, Some(<<"J">>), Some(<<"J", "o", "h", "n">>)},
   email |-> {Some(<<>>), Some(<<"i", "n", "v", "a", "l", "i", "d">>), Some(<<"j", "o", "h", "n", "@", "e", "x", "a", "m", "p", "l", "e", ".", "c", "o", "m">>)},
   cardNumber |-> {Some(<<"4", "5", "3", "2", "0", "1", "5", "1", "1", "2", "8", "3", "0", "3", "6", "7">>), Some(<<"4", "5", "3", "2", "0", "1", "5", "1", "1", "2", "8", "3", "0", "3", "6", "6">>)},
   nickname |-> {Some(<<"x">>)}]

InitCheckout ==
  CheckoutInit /\ CartIdle /\ InvIdle /\ FormIdle /\ PureIdle /\ UiIdle

ValidateFormStep ==
  \E formData \in FormsTried, keep \in BOOLEAN : validateForm(formData, Today, keep)
ValidateFieldStep ==
  \E fieldName \in DOMAIN FieldsTried :
    \E value \in FieldsTried[fieldName] : validateField(fieldName, value, Today)
ClearFieldErrorStep ==
  \E fieldName \in DOMAIN FieldsTried : clearFieldError(fieldName)

NextCheckout ==
  \/ ValidateFormStep /\ UNCHANGED <<cartVars, invVars, formVars, pureVars, uiVars>>
  \/ ValidateFieldStep /\ UNCHANGED <<cartVars, invVars, formVars, pureVars, uiVars>>
  \/ clearErrors /\ UNCHANGED <<cartVars, invVars, formVars, pureVars, uiVars>>
  \/ ClearFieldErrorStep /\ UNCHANGED <<cartVars, invVars, formVars, pureVars, uiVars>>

SpecCheckout == InitCheckout /\ [][NextCheckout]_vars

\* one validator given single values only
NextFields ==
  ValidateFieldStep /\ UNCHANGED <<cartVars, invVars, formVars, pureVars, uiVars>>

SpecFields == InitCheckout /\ [][NextFields]_vars

\* one validator given one form: the form is validated whole (submit, blur)
\* or one field of it at a time
BlurFields == {"firstName", "cardNumber", "expiryDate", "nickname"}

InitValidateForm ==
  /\ CheckoutInit /\ CartIdle /\ InvIdle /\ FormIdle /\ UiIdle
  /\ pureIn \in Forms
  /\ pureOut = None

SubmitInputStep == validateForm(pureIn, Today, TRUE)
BlurInputStep ==
  \E fieldName \in BlurFields :
    validateField(fieldName, ValueOf(pureIn, fieldName), Today)

NextValidateForm ==
  \/ SubmitInputStep /\ UNCHANGED <<cartVars, invVars, formVars, pureVars, uiVars>>
  \/ BlurInputStep /\ UNCHANGED <<cartVars, invVars, formVars, pureVars, uiVars>>

SpecValidateForm == InitValidateForm /\ [][NextValidateForm]_vars

(***************************************************************************)
(* Properties of the checkout validator                                    *)
(***************************************************************************)
\* the checks in the order the claim gives them
Checks == <<"required", "minLength", "maxLength", "pattern", "customValidator">>

\* a missing, null or white-space-only value
IsEmptyValue(value) == value = None \/ trim(value[1]) = <<>>

\* the value fails the check of field f; asked of a value only after it
\* has passed the checks before this one
FailsCheck(check, f, value, now) ==
  CASE check = "required" -> IsEmptyValue(value)
    [] check = "minLength" ->
         /\ "minLength" \in DOMAIN validationRules[f]
         /\ Len(value[1]) < validationRules[f].minLength
    [] check = "maxLength" ->
         /\ "maxLength" \in DOMAIN validationRules[f]
         /\ Len(value[1]) > validationRules[f].maxLength
    [] check = "pattern" ->
         /\ "pattern" \in DOMAIN validationRules[f]
         /\ ~PatternTest(f, value[1])
    [] check = "customValidator" ->
         /\ "customValidator" \in DOMAIN validationRules[f]
         /\ customValidator(f, value[1], now) # None

\* the first check from the k-th on that the value fails, 0 if it passes all
RECURSIVE FirstFailing(_, _, _, _)
FirstFailing(k, f, value, now) ==
  IF k > Len(Checks) THEN 0
  ELSE IF FailsCheck(Checks[k], f, value, now) THEN k
  ELSE FirstFailing(k + 1, f, value, now)

CheckMessage(check, f, value, now) ==
  CASE check = "required" -> formatFieldName(f) \o " is required"
    [] check = "minLength" ->
         formatFieldName(f) \o " must be at least "
           \o ToString(validationRules[f].minLength) \o " characters"
    [] check = "maxLength" ->
         formatFieldName(f) \o " cannot exceed "
           \o ToString(validationRules[f].maxLength) \o " characters"
    [] check = "pattern" -> getPatternErrorMessage(f)
    [] check = "customValidator" -> customValidator(f, value[1], now)[1]

\* the error map the claim describes for a form
ExpectedErrors(formData, now) ==
  [f \in {g \in DOMAIN validationRules :
            FirstFailing(1, g, ValueOf(formData, g), now) # 0} |->
     CheckMessage(Checks[FirstFailing(1, f, ValueOf(formData, f), now)],
                  f, ValueOf(formData, f), now)]

\* C14: validateForm(values) does not throw; the keys of the errors it
\* returns are exactly the rule-table fields whose value fails a check
\* (missing, null and white-space-only values are empty), each with the
\* message of its first failing check in the order required, minLength,
\* maxLength, pattern, customValidator; isValid holds iff the map is empty;
\* a key without a rule gets no entry; a form whose values are all empty
\* gets an entry for each of the 12 fields.
C14_ValidateForm ==
  (valLast.op = "validateForm") =>
    /\ ~valLast.threw
    /\ valLast.ret # None
    /\ valLast.ret[1].errors = ExpectedErrors(valLast.formData, Today)
    /\ valLast.ret[1].isValid <=> (DOMAIN valLast.ret[1].errors = {})
    /\ DOMAIN valLast.ret[1].errors \subseteq DOMAIN validationRules
    /\ (\A f \in DOMAIN validationRules : IsEmptyValue(ValueOf(valLast.formData, f)))
         => /\ DOMAIN valLast.ret[1].errors = DOMAIN validationRules
            /\ Cardinality(DOMAIN valLast.ret[1].errors) = 12

\* a state value that is too long and also not two capitals gets the
\* maxLength message, after an earlier call had left another error
C14_Witness ==
  /\ valLast.op = "validateForm"
  /\ calls >= 2
  /\ valLast.formData = [ValidForm EXCEPT !.state = Some(<<"U", "T", "A">>)]
  /\ ~valLast.ret[1].isValid
  /\ DOMAIN valLast.ret[1].errors = {"state"}
  /\ valLast.ret[1].errors["state"] = "State cannot exceed 2 characters"

\* C15: after validateField(f, v) the validator reports an error for f
\* (hasFieldError, getFieldError) iff validateForm of a form whose f value
\* is v reports one for f, and with the same message; so after a valid v
\* there is no error for f, whatever an earlier call recorded.
C15_FieldAgreesWithForm ==
  (valLast.op = "validateField") =>
    LET f == valLast.fieldName
        formErrors == validateEach([g \in {f} |-> valLast.value], Len(RuleOrder), Today)
    IN /\ hasFieldError(heap[thisErrors], f) <=> hasFieldError(formErrors, f)
       /\ getFieldError(heap[thisErrors], f) = getFieldError(formErrors, f)

\* C16: a result returned by validateForm holds the errors of its own input
\* only, stays as it was returned whatever is called on the validator later,
\* and equals the result of any other validateForm call on the same input.
C16_ResultIsFresh ==
  /\ (valLast.op = "validateForm") =>
       valLast.ret[1].errors = ExpectedErrors(valLast.formData, Today)
  /\ (result # None) =>
       /\ heap[result[1].errors] = result[1].returned
       /\ result[1].isValid <=> (DOMAIN heap[result[1].errors] = {})
  /\ (result # None /\ valLast.op = "validateForm"
        /\ valLast.formData = result[1].formData) =>
       /\ valLast.ret[1].errors = result[1].returned
       /\ valLast.ret[1].isValid = result[1].isValid

(***************************************************************************)
(* Card numbers: validateCardNumber and validateField('cardNumber', v)     *)
(* applied to digit strings with spaces put into them                      *)
(***************************************************************************)
MaxSpaces == 2

CardDigits ==
  {
    <<"4", "5", "3", "2", "0", "1", "5", "1", "1", "2", "8", "5">>,  \* 12 digits, Luhn sum divisible by 10
    <<"4", "2", "2", "2", "2", "2", "2", "2", "2", "2", "2", "2", "2">>,  \* 13 digits, valid
    <<"4", "5", "3", "2", "0", "1", "5", "1", "1", "2", "8", "3", "0", "3", "6", "6">>,  \* 16 digits, valid
    <<"4", "5", "3", "2", "0", "1", "5", "1", "1", "2", "8", "3", "0", "3", "6", "7">>,  \* 16 digits, last digit off by one
    <<"4", "5", "3", "2", "0", "1", "5", "1", "1", "2", "8", "3", "0", "3", "6", "6", "5">>,  \* 17 digits, valid
    <<"4", "5", "3", "2", "0", "1", "5", "1", "1", "2", "8", "3", "0", "3", "6", "6", "0", "0", "5">>,  \* 19 digits, valid
    <<"4", "5", "3", "2", "0", "1", "5", "1", "1", "2", "8", "3", "0", "3", "6", "6", "0", "0", "6">>,  \* 19 digits, last digit off by one
    <<"4", "5", "3", "2", "0", "1", "5", "1", "1", "2", "8", "3", "0", "3", "6", "6", "0", "0", "1", "8">> }  \* 20 digits, Luhn sum divisible by 10

\* s with n spaces put after its first pos characters
SpacedAt(s, pos, n) ==
  SubSeq(s, 1, pos) \o Repeat(" ", n) \o SubSeq(s, pos + 1, Len(s))

\* what is in the card field: the digits as typed, with spaces somewhere,
\* or as formatCardNumber leaves them
CardInputs ==
  UNION { {SpacedAt(d, pos, n) : pos \in 0..Len(d), n \in 0..MaxSpaces} :
          d \in CardDigits }
    \cup {formatCardNumber(d) : d \in CardDigits}

InitCard ==
  /\ CheckoutInit /\ CartIdle /\ InvIdle /\ FormIdle /\ UiIdle
  /\ pureIn \in CardInputs
  /\ pureOut = None

\* validateCardNumber(pureIn) called by itself
CheckCardStep ==
  /\ pureOut = None
  /\ pureOut' = Some(validateCardNumber(pureIn))
  /\ UNCHANGED pureIn

\* the card field validated through validateField
BlurCardStep ==
  /\ validateField("cardNumber", Some(pureIn), Today)
  /\ UNCHANGED pureVars

NextCard ==
  \/ CheckCardStep /\ UNCHANGED <<cartVars, invVars, formVars, checkoutVars, uiVars>>
  \/ BlurCardStep /\ UNCHANGED <<cartVars, invVars, formVars, uiVars>>

SpecCard == InitCard /\ [][NextCard]_vars

\* the digits of s, in order
DigitsOf(s) == SelectSeq(s, LAMBDA c : c \in Digits)

\* the Luhn sum of the first n digits' places of d, places counted from the
\* right: the digit at an even distance from the last one counts as it is,
\* the digit at an odd distance is doubled and reduced by 9 when above 9
RECURSIVE LuhnTotal(_, _)
LuhnTotal(d, n) ==
  IF n = 0 THEN 0
  ELSE LET v == DigitValue(d[n])
       IN (IF (Len(d) - n) % 2 = 0 THEN v
           ELSE IF 2 * v > 9 THEN 2 * v - 9 ELSE 2 * v)
            + LuhnTotal(d, n - 1)

PassesLuhn(d) == LuhnTotal(d, Len(d)) % 10 = 0

\* C17: for s of digits and white space, with d the digits of s,
\* validateCardNumber(s) returns the '13-19 digits' message iff d has fewer
\* than 13 or more than 19 digits; otherwise the 'is invalid' message iff
\* the Luhn sum of d is not divisible by 10; otherwise null.  The two
\* messages differ.
C17_ValidateCardNumber ==
  (pureOut # None) =>
    LET d == DigitsOf(pureIn)
        ret == pureOut[1]
        inRange == Len(d) >= 13 /\ Len(d) <= 19
    IN /\ (ret = Some("Credit card number must be 13-19 digits")) <=> ~inRange
       /\ inRange =>
            ((ret = Some("Credit card number is invalid")) <=> ~PassesLuhn(d))
       /\ (inRange /\ PassesLuhn(d)) => (ret = None)
       /\ "Credit card number must be 13-19 digits" # "Credit card number is invalid"

\* a valid 16-digit number in groups of four has been given and null returned
C17_Witness ==
  /\ pureOut = Some(None)
  /\ Len(pureIn) = 19
  /\ Len(DigitsOf(pureIn)) = 16
  /\ pureIn = formatCardNumber(pureIn)

\* C18: validateField('cardNumber', v) ignores white space: for v a string
\* of 13 to 19 digits with spaces put into it anywhere, the field is
\* accepted iff the digits pass the Luhn check.
C18_SpacesIgnored ==
  (valLast.op = "validateField" /\ valLast.fieldName = "cardNumber"
     /\ Len(DigitsOf(pureIn)) >= 13 /\ Len(DigitsOf(pureIn)) <= 19) =>
    (~hasFieldError(heap[thisErrors], "cardNumber") <=> PassesLuhn(DigitsOf(pureIn)))

(***************************************************************************)
(* Expiry dates: validateField('expiryDate', v) at a given date            *)
(***************************************************************************)
MaxMonthTried == 13

\* the character of a decimal digit
DigitChar(v) == CHOOSE c \in Digits : DigitValue(c) = v

\* a number below 100 written with two digits
TwoDigits(n) == <<DigitChar(n \div 10), DigitChar(n % 10)>>

\* MM/YY
ExpiryOf(mm, yy) == TwoDigits(mm) \o <<"/">> \o TwoDigits(yy)

YearsTried == {0, 25, 26, 27, 99}

\* values that are not two digits, a slash and two digits
Malformed ==
  { <<>>,
    <<" ">>,
    <<"1", "/", "2", "5">>,
    <<"1", "2", "-", "2", "5">>,
    <<"1", "2", "/", "2">>,
    <<"1", "2", "/", "2", "5", "6">>,
    <<"a", "b", "/", "c", "d">>,
    <<"1", "2", "/", "2", "a">>,
    <<"1", "2", "2", "6">>,
    <<" ", "1", "2", "/", "2", "6">> }

\* new Date() at the call: getFullYear() and getMonth()
DatesTried ==
  {[fullYear |-> y, month |-> m] : y \in {2026, 2100}, m \in {0, 5, 10, 11}}

ExpiryInputs ==
  {[value |-> v, now |-> now] :
     v \in {ExpiryOf(mm, yy) : mm \in 0..MaxMonthTried, yy \in YearsTried}
             \cup Malformed,
     now \in DatesTried}

InitExpiry ==
  /\ CheckoutInit /\ CartIdle /\ InvIdle /\ FormIdle /\ UiIdle
  /\ pureIn \in ExpiryInputs
  /\ pureOut = None

BlurExpiryStep ==
  /\ validateField("expiryDate", Some(pureIn.value), pureIn.now)
  /\ UNCHANGED pureVars

NextExpiry ==
  BlurExpiryStep /\ UNCHANGED <<cartVars, invVars, formVars, uiVars>>

SpecExpiry == InitExpiry /\ [][NextExpiry]_vars

\* v is two digits 01..12, a slash and two digits
WellFormedExpiry(v) ==
  \E mm \in 1..12, yy \in 0..99 : v = ExpiryOf(mm, yy)

\* C19: a value is rejected for its format unless it is two digits 01..12,
\* a slash and two digits; a well-formed MM/YY is rejected as expired iff
\* YY < cy or (YY = cy and MM < cm), cy and cm being the current two-digit
\* year and month; the current month is accepted and the month before it in
\* the same year is rejected.
C19_ExpiryDate ==
  (valLast.op = "validateField") =>
    LET v == pureIn.value
        cy == pureIn.now.fullYear % 100
        cm == pureIn.now.month + 1
        error == getFieldError(heap[thisErrors], "expiryDate")
    IN IF ~WellFormedExpiry(v)
       THEN error # None /\ error # Some("Card has expired")
       ELSE \A mm \in 1..12, yy \in 0..99 :
              (v = ExpiryOf(mm, yy)) =>
                /\ (error = Some("Card has expired"))
                     <=> (yy < cy \/ (yy = cy /\ mm < cm))
                /\ (error # Some("Card has expired")) => (error = None)
                /\ (yy = cy /\ mm = cm) => (error = None)
                /\ (yy = cy /\ mm = cm - 1) => (error = Some("Card has expired"))

\* in November 2026 the value 11/26 has been validated and accepted
C19_Witness ==
  /\ valLast.op = "validateField"
  /\ pureIn.now = [fullYear |-> 2026, month |-> 10]
  /\ pureIn.value = ExpiryOf(11, 26)
  /\ ~hasFieldError(heap[thisErrors], "expiryDate")

(***************************************************************************)
(* Prices: FormValidator.validatePrice applied to short strings            *)
(***************************************************************************)
PriceChars == {" ", "-", "0", "5", ".", "a"}

\* null or undefined, every string of at most MaxPriceLen of the characters
\* above, and a few longer prices
PriceInputs ==
  {None}
    \cup {Some(s) : s \in UNION {[1..n -> PriceChars] : n \in 0..MaxPriceLen}}
    \cup {Some(<<"9", "9", "9", "9", "9">>), Some(<<"1", "0", "0", "0", "0", "0">>), Some(<<"9", "9", "9", "9", "9", ".", "5">>), Some(<<"2", "5", "0", ".", "9", "9">>), Some(<<"-", "5", "0">>)}

InitPrice ==
  /\ CheckoutIdle /\ CartIdle /\ InvIdle /\ FormIdle /\ UiIdle
  /\ pureIn \in PriceInputs
  /\ pureOut = None

CheckPriceStep ==
  /\ pureOut = None
  /\ pureOut' = Some(validatePrice(pureIn))
  /\ UNCHANGED pureIn

NextPrice ==
  CheckPriceStep /\ UNCHANGED <<cartVars, invVars, formVars, checkoutVars, uiVars>>

SpecPrice == InitPrice /\ [][NextPrice]_vars

\* C20: validatePrice puts every input in exactly one class: empty (null,
\* undefined, or nothing left after trimming) gives 'Price is required';
\* a non-empty value that does not parse as a number gives 'must be a valid
\* number'; a parsed value <= 0 gives 'must be greater than 0'; a parsed
\* value above 99999 gives 'cannot exceed'; anything else gives no error.
\* The four messages differ from each other.
C20_PriceClasses ==
  (pureOut # None) =>
    LET error == getFieldError(pureOut[1], "price")
        priceNum == parseFloatChars(pureIn[1])
    IN /\ error =
            IF pureIn = None \/ trim(pureIn[1]) = <<>>
            THEN Some("Price is required")
            ELSE IF priceNum.nan THEN Some("Price must be a valid number")
            ELSE IF priceNum.num <= 0 THEN Some("Price must be greater than 0")
            ELSE IF priceNum.num > 99999 * priceNum.den
            THEN Some("Price cannot exceed $99,999")
            ELSE None
       /\ Cardinality({"Price is required", "Price must be a valid number",
                       "Price must be greater than 0",
                       "Price cannot exceed $99,999"}) = 4

(***************************************************************************)
(* Image URL validation on its own: validateImageUrl applied to URLs put    *)
(* together from a scheme, slashes, a host, a path and a query or          *)
(* fragment, so that the path of each URL is known.                        *)
(***************************************************************************)
UrlPads == {<<>>, <<" ">>}

SpecialPrefixes ==
  { <<"h", "t", "t", "p", "s", ":">>,
    <<"H", "T", "T", "P", "S", ":">>,
    <<"f", "t", "p", ":">> }

OtherPrefixes == {<<"m", "a", "i", "l", "t", "o", ":">>}

UrlSlashes == {<<>>, <<"/", "/">>}

UrlHosts ==
  { <<"x">>,
    <<"x", ".", "j", "p", "g">>,
    <<"x", ".", "p", "n", "g", ".", "c", "o", "m">>,
    <<"x", " ", "y">> }

UrlPaths ==
  { <<>>,
    <<"/", "a">>,
    <<"/", "a", ".", "j", "p", "g">>,
    <<"/", "a", ".", "J", "P", "G">>,
    <<"/", "a", ".", "j", "p", "e", "g">>,
    <<"/", "a", ".", "p", "n", "g">>,
    <<"/", "a", ".", "g", "i", "f">>,
    <<"/", "a", ".", "w", "e", "b", "p">>,
    <<"/", "a", ".", "t", "x", "t">>,
    <<"/", "a", ".", "b", "m", "p">>,
    <<"/", "a", ".", "j", "p", "g", "/", "b">>,
    <<"/", "a", ".", "j", "p", "g", "x">>,
    <<"/", "a", ".", "p", "n", "g", ".", "t", "x", "t">> }

UrlTails ==
  { <<>>,
    <<"?", "f", "=", ".", "p", "n", "g">>,
    <<"#", ".", "g", "i", "f">> }

UrlParts(pad, scheme, slashes, host, path, tail) ==
  [pad |-> pad, scheme |-> scheme, slashes |-> slashes, host |-> host,
   path |-> path, tail |-> tail]

\* URLs of a special scheme, with a host or with nothing where the host
\* should be; URLs of another scheme, which have an opaque path; and the
\* same texts without a scheme
UrlInputs ==
  {UrlParts(pad, scheme, slashes, host, path, tail) :
     pad \in UrlPads, scheme \in SpecialPrefixes, slashes \in UrlSlashes,
     host \in UrlHosts, path \in UrlPaths, tail \in UrlTails}
    \cup {UrlParts(pad, scheme, slashes, <<>>, <<>>, tail) :
            pad \in UrlPads, scheme \in SpecialPrefixes, slashes \in UrlSlashes,
            tail \in UrlTails}
    \cup {UrlParts(pad, scheme, <<>>, <<>>, path, tail) :
            pad \in UrlPads, scheme \in OtherPrefixes, path \in UrlPaths,
            tail \in UrlTails}
    \cup {UrlParts(pad, <<>>, slashes, host, path, tail) :
            pad \in UrlPads, slashes \in UrlSlashes, host \in UrlHosts,
            path \in UrlPaths, tail \in UrlTails}

\* the string handed to the validator
UrlText(u) == u.pad \o u.scheme \o u.slashes \o u.host \o u.path \o u.tail

InitImageUrl ==
  /\ CheckoutIdle /\ CartIdle /\ InvIdle /\ FormIdle /\ UiIdle
  /\ pureIn \in UrlInputs
  /\ pureOut = None

CheckImageUrlStep ==
  /\ pureOut = None
  /\ pureOut' = Some(validateImageUrl(UrlText(pureIn)))
  /\ UNCHANGED pureIn

NextImageUrl ==
  CheckImageUrlStep /\ UNCHANGED <<cartVars, invVars, formVars, checkoutVars, uiVars>>

SpecImageUrl == InitImageUrl /\ [][NextImageUrl]_vars

\* a URL with a scheme, and with a host of domain characters when the
\* scheme is a special one
WellFormedUrl(u) ==
  /\ u.scheme # <<>>
  /\ u.scheme \in SpecialPrefixes =>
       u.host # <<>> /\ \A i \in 1..Len(u.host) : u.host[i] # " "

\* the path of the URL ends in .jpg, .jpeg, .png, .gif or .webp, in either
\* case
PathEndsInExtension(u) ==
  LET path == toLowerCase(u.path) IN
    \E ext \in {<<".", "j", "p", "g">>, <<".", "j", "p", "e", "g">>, <<".", "p", "n", "g">>, <<".", "g", "i", "f">>, <<".", "w", "e", "b", "p">>} :
      /\ Len(path) >= Len(ext)
      /\ SubSeq(path, Len(path) - Len(ext) + 1, Len(path)) = ext

\* C21: a non-empty image URL that is not a well-formed URL gets the URL
\* error and never the extension error; a well-formed URL gets the
\* extension error iff its path does not end in an allowed extension, and no
\* error otherwise, so that an allowed extension in the host or followed by
\* more path characters does not make the URL acceptable.
C21_ImageUrl ==
  (pureOut # None) =>
    getFieldError(pureOut[1], "imageUrl") =
      IF ~WellFormedUrl(pureIn) THEN Some("Image URL must be a valid URL")
      ELSE IF ~PathEndsInExtension(pureIn)
      THEN Some("Image URL must point to a valid image (jpg, png, gif, webp)")
      ELSE None

(***************************************************************************)
(* Product search (productSearch.mjs).                                     *)
(*                                                                         *)
(* productSearch is the ProductSearch object: allProducts,                 *)
(* filteredProducts, currentSearch and currentCategory.  A product is a    *)
(* record whose string fields are None when the property is missing;       *)
(* Brand is None or a record with a Name; SizesAvailable tells whether the *)
(* property is defined.  pureIn keeps the last call and the allProducts it  *)
(* found, pureOut what the call returned.                                  *)
(***************************************************************************)
\* a string that is neither missing nor empty
Truthy(field) == field # None /\ field[1] # <<>>

\* a search that looks at the name only
matchesNameOnly(product, searchTerm) ==
  Truthy(product.Name) /\ includes(toLowerCase(product.Name[1]), searchTerm)

matchesSearchTerm(product, searchTerm) ==
  \/ Truthy(product.Name) /\ includes(toLowerCase(product.Name[1]), searchTerm)
  \/ Truthy(product.NameWithoutBrand)
       /\ includes(toLowerCase(product.NameWithoutBrand[1]), searchTerm)
  \/ product.Brand # None /\ Truthy(product.Brand[1].Name)
       /\ includes(toLowerCase(product.Brand[1].Name[1]), searchTerm)
  \/ Truthy(product.DescriptionHtmlSimple)
       /\ includes(toLowerCase(product.DescriptionHtmlSimple[1]), searchTerm)

getProductCategory(product) ==
  IF Truthy(product.Category) THEN product.Category[1]
  ELSE IF product.SizesAvailable THEN <<"g", "e", "a", "r">>
  ELSE <<"p", "r", "o", "d", "u", "c", "t">>

\* the callback of allProducts.filter in search
keeps(product, currentSearch, currentCategory) ==
  IF currentCategory # <<>>
       /\ ~includes(toLowerCase(getProductCategory(product)), currentCategory)
  THEN FALSE
  ELSE IF currentSearch # <<>> THEN matchesSearchTerm(product, currentSearch)
  ELSE TRUE

\* search(searchTerm, category) as called by caller
searchFrom(caller, searchTerm, cat) ==
  LET currentSearch == trim(toLowerCase(searchTerm))
      currentCategory == IF Truthy(cat) THEN trim(toLowerCase(cat[1]))
                         ELSE <<>>
      filteredProducts ==
        IF currentSearch = <<>> /\ currentCategory = <<>>
        THEN productSearch.allProducts
        ELSE SelectSeq(productSearch.allProducts,
                       LAMBDA product : keeps(product, currentSearch, currentCategory))
  IN /\ productSearch' = [productSearch EXCEPT
                            !.currentSearch = currentSearch,
                            !.currentCategory = currentCategory,
                            !.filteredProducts = filteredProducts]
     /\ pureIn' = [op |-> caller, searchTerm |-> searchTerm,
                   category |-> cat, allProductsBefore |-> productSearch.allProducts]
     /\ pureOut' = Some(filteredProducts)

search(searchTerm, cat) == searchFrom("search", searchTerm, cat)

filterByCategory(cat) == searchFrom("filterByCategory", <<>>, Some(cat))

clearFilters ==
  /\ productSearch' = [productSearch EXCEPT
                         !.currentSearch = <<>>,
                         !.currentCategory = <<>>,
                         !.filteredProducts = productSearch.allProducts]
  /\ pureIn' = [op |-> "clearFilters", searchTerm |-> <<>>, category |-> None,
                allProductsBefore |-> productSearch.allProducts]
  /\ pureOut' = Some(productSearch.allProducts)

setProducts(products) ==
  /\ productSearch' = [productSearch EXCEPT
                         !.allProducts = products,
                         !.filteredProducts = products]
  /\ pureIn' = [op |-> "setProducts", searchTerm |-> <<>>, category |-> None,
                allProductsBefore |-> productSearch.allProducts]
  /\ pureOut' = None

getResults ==
  [products |-> productSearch.filteredProducts,
   count |-> Len(productSearch.filteredProducts),
   searchTerm |-> productSearch.currentSearch,
   category |-> productSearch.currentCategory,
   hasResults |-> Len(productSearch.filteredProducts) > 0]

\* the catalogue: two tents and a backpack as in the product data, a record
\* with only a description, and one whose strings are empty
Ajax ==
  [Id |-> "880RR", Name |-> Some(<<"M", "a", "r", "m", "o", "t", " ", "A", "j", "a", "x", " ", "T", "e", "n", "t">>),
   NameWithoutBrand |-> Some(<<"A", "j", "a", "x", " ", "T", "e", "n", "t">>),
   Brand |-> Some([Name |-> Some(<<"M", "a", "r", "m", "o", "t">>)]),
   DescriptionHtmlSimple |-> Some(<<"E", "n", "j", "o", "y", " ", "n", "a", "t", "u", "r", "e">>),
   Category |-> None, SizesAvailable |-> TRUE]

Zulu ==
  [Id |-> "223RN", Name |-> Some(<<"G", "r", "e", "g", "o", "r", "y", " ", "Z", "u", "l", "u", " ", "P", "a", "c", "k">>),
   NameWithoutBrand |-> Some(<<"Z", "u", "l", "u", " ", "P", "a", "c", "k">>),
   Brand |-> Some([Name |-> Some(<<"G", "r", "e", "g", "o", "r", "y">>)]),
   DescriptionHtmlSimple |-> Some(<<"R", "e", "a", "d", "y", " ", "f", "o", "r", " ", "a", "d", "v", "e", "n", "t", "u", "r", "e">>),
   Category |-> Some(<<"B", "a", "c", "k", "p", "a", "c", "k", "s">>), SizesAvailable |-> TRUE]

Peg ==
  [Id |-> "P3", Name |-> None, NameWithoutBrand |-> None,
   Brand |-> Some([Name |-> None]),
   DescriptionHtmlSimple |-> Some(<<"S", "t", "e", "e", "l", " ", "t", "e", "n", "t", " ", "p", "e", "g">>),
   Category |-> None, SizesAvailable |-> FALSE]

Gift ==
  [Id |-> "G4", Name |-> Some(<<>>), NameWithoutBrand |-> None, Brand |-> None,
   DescriptionHtmlSimple |-> None, Category |-> Some(<<>>),
   SizesAvailable |-> FALSE]

ProductLists ==
  { <<>>, <<Ajax, Zulu, Peg, Gift>>, <<Zulu, Ajax>>, <<Peg, Ajax, Peg>> }

SearchTerms ==
  { <<>>,
    <<" ", " ">>,
    <<"t", "e", "n", "t">>,
    <<"T", "E", "N", "T">>,
    <<" ", "T", "e", "n", "t", " ">>,
    <<"m", "a", "r", "m", "o", "t">>,
    <<"z", "u", "l", "u">>,
    <<"a", "d", "v", "e", "n", "t", "u", "r", "e">>,
    <<"z", "z", "z">>,
    <<"a", "j", "a", "x", " ", "t", "e", "n", "t">> }

SearchCategories ==
  { <<>>,
    <<" ", " ">>,
    <<"g", "e", "a", "r">>,
    <<"G", "E", "A", "R">>,
    <<" ", "g", "e", "a", "r", " ">>,
    <<"b", "a", "c", "k">>,
    <<"p", "r", "o", "d", "u", "c", "t">>,
    <<"s", "h", "o", "e", "s">> }

\* new ProductSearch(products)
SearchInit ==
  /\ \E products \in ProductLists :
       productSearch = [allProducts |-> products, filteredProducts |-> products,
                        currentSearch |-> <<>>, currentCategory |-> <<>>]
  /\ pureIn = [op |-> "new"]
  /\ pureOut = None

InitSearch ==
  SearchInit /\ CartIdle /\ InvIdle /\ FormIdle /\ CheckoutIdle /\ SearchRestIdle

SearchStep ==
  \E searchTerm \in SearchTerms, cat \in {None} \cup {Some(c) : c \in SearchCategories} :
    search(searchTerm, cat)
FilterStep == \E cat \in SearchCategories : filterByCategory(cat)
SetProductsStep == \E products \in ProductLists : setProducts(products)

NextSearch ==
  \/ SearchStep /\ UNCHANGED <<cartVars, invVars, formVars, checkoutVars, searchRest>>
  \/ FilterStep /\ UNCHANGED <<cartVars, invVars, formVars, checkoutVars, searchRest>>
  \/ clearFilters /\ UNCHANGED <<cartVars, invVars, formVars, checkoutVars, searchRest>>
  \/ SetProductsStep /\ UNCHANGED <<cartVars, invVars, formVars, checkoutVars, searchRest>>

SpecSearch == InitSearch /\ [][NextSearch]_vars

\* the strings of a product the search looks at
SearchableText(product) ==
  {f[1] : f \in {product.Name, product.NameWithoutBrand,
                 product.DescriptionHtmlSimple} \ {None}}
    \cup (IF product.Brand = None THEN {}
          ELSE {f[1] : f \in {product.Brand[1].Name} \ {None}})

\* the trimmed lower-cased term is empty or a substring of a lower-cased
\* Name, NameWithoutBrand, Brand.Name or DescriptionHtmlSimple
TermMatches(product, term) ==
  \/ trim(toLowerCase(term)) = <<>>
  \/ \E text \in SearchableText(product) :
       includes(toLowerCase(text), trim(toLowerCase(term)))

\* the call before this state went through search
Searched == pureIn.op \in {"search", "filterByCategory"}

\* C22 as stated: search returns, in their original order, the products
\* whose text matches the term and, when a category is given, whose category
\* contains the category as given, in either case; allProducts is unchanged
C22_CategoryAsGiven ==
  Searched =>
    /\ pureOut[1] =
         SelectSeq(pureIn.allProductsBefore,
                   LAMBDA product :
                     /\ TermMatches(product, pureIn.searchTerm)
                     /\ \/ ~Truthy(pureIn.category)
                        \/ includes(toLowerCase(getProductCategory(product)),
                                    toLowerCase(pureIn.category[1])))
    /\ productSearch.allProducts = pureIn.allProductsBefore

\* C22: search(term, category) returns exactly the products of allProducts,
\* in their original order, whose text matches the trimmed lower-cased term
\* and, when the trimmed category is not empty, whose category contains the
\* trimmed category in either case; it returns all products when both are
\* empty and never changes allProducts or a product.
C22_Search ==
  Searched =>
    /\ pureOut[1] =
         SelectSeq(pureIn.allProductsBefore,
                   LAMBDA product :
                     /\ TermMatches(product, pureIn.searchTerm)
                     /\ \/ ~Truthy(pureIn.category)
                        \/ trim(pureIn.category[1]) = <<>>
                        \/ includes(toLowerCase(getProductCategory(product)),
                                    trim(toLowerCase(pureIn.category[1]))))
    /\ productSearch.allProducts = pureIn.allProductsBefore
    /\ (trim(pureIn.searchTerm) = <<>> /\ ~Truthy(pureIn.category))
         => pureOut[1] = pureIn.allProductsBefore

\* a search with a term and a category keeps one of four products
C22_Witness ==
  /\ pureIn.op = "search"
  /\ trim(pureIn.searchTerm) # <<>>
  /\ Truthy(pureIn.category)
  /\ Len(pureIn.allProductsBefore) = 4
  /\ Len(pureOut[1]) = 1

\* the products that match what getResults reports as term and category
MatchesReported(product) ==
  /\ TermMatches(product, getResults.searchTerm)
  /\ \/ getResults.category = <<>>
     \/ includes(toLowerCase(getProductCategory(product)), getResults.category)

\* C30: after any sequence of search, filterByCategory, clearFilters and
\* setProducts calls, getResults().products is exactly the list of
\* allProducts matching getResults().searchTerm and getResults().category,
\* count is its length and hasResults is true iff count > 0.
C30_ResultsCoherent ==
  /\ getResults.products = SelectSeq(productSearch.allProducts, MatchesReported)
  /\ getResults.count = Len(getResults.products)
  /\ getResults.hasResults = (getResults.count > 0)

(***************************************************************************)
(* Cart header badge (cartHeader.mjs) on the product page, whose Add to    *)
(* Cart button (productDetails.mjs) works through a CartManager of its     *)
(* own.                                                                    *)
(*                                                                         *)
(* header is the badge element and this tab's queue of storage events:     *)
(* textContent, display, queued, and event, the last thing that happened.  *)
(* listeners are those of the CartManager the header constructs; the       *)
(* manager of the product details has none.  Another tab changes the       *)
(* shared store through a CartManager of its own, and the browser queues a *)
(* storage event in this tab when the stored value changed.                *)
(***************************************************************************)
MaxSignals == 2

\* updateBadge with the badge element present
updateBadge(h, st) ==
  [h EXCEPT !.textContent = getItemCount(st),
            !.display = IF getItemCount(st) > 0 THEN "flex" ELSE "none"]

\* the carts an earlier page may have left in the store
EarlierStores ==
  {NoStore, setLocalStorage(<<>>),
   setLocalStorage(<<[Id |-> "T1", Quantity |-> 1, FinalPrice |-> 20, Price |-> 25]>>)}

\* new CartHeader(): init() shows the count and subscribes updateBadge to
\* its own manager and to the window's storage event
HeaderInit ==
  /\ cartStore \in EarlierStores
  /\ listeners = [e \in EventTypes |->
                    IF e = "cartUpdated"
                    THEN <<[name |-> "updateBadge", throws |-> FALSE]>> ELSE <<>>]
  /\ callLog = <<>>
  /\ cartLast = [op |-> "none"]
  /\ header = updateBadge([event |-> "load", textContent |-> 0, display |-> "",
                           queued |-> 0], cartStore)

InitHeader ==
  HeaderInit /\ InvIdle /\ FormIdle /\ CheckoutIdle /\ PureIdle /\ HeaderRestIdle

\* ProductDetailsRenderer.addCurrentProductToCart: addToCart on the
\* renderer's manager, which has no listeners, so notifyListeners returns
\* at once; no storage event is sent to the tab that wrote
addCurrentProductToCart(currentProduct) ==
  IF currentProduct = None
  THEN /\ header' = [header EXCEPT !.event = "alert"]
       /\ UNCHANGED cartStore
  ELSE LET cart == getCartItems(cartStore) IN
         /\ \A i \in 1..Len(cart) :
              cart[i].Id = currentProduct[1].Id => cart[i].Quantity < MaxQty
         /\ cartStore' = saveCart(AddCart(cart, currentProduct[1]))
         /\ header' = [header EXCEPT !.event = "addToCart"]

\* a cart operation in another tab
otherTabWrites(cart) ==
  /\ header.queued < MaxSignals
  /\ cartStore' = saveCart(cart)
  /\ header' = [header EXCEPT
                  !.event = "otherTab",
                  !.queued = IF cartStore' # cartStore THEN @ + 1 ELSE @]

\* the storage listener: () => this.updateBadge()
storageEvent ==
  /\ header.queued > 0
  /\ header' = updateBadge([header EXCEPT !.event = "storage", !.queued = @ - 1],
                           cartStore)
  /\ UNCHANGED cartStore

AddCurrentStep ==
  \E currentProduct \in {None} \cup {Some(p) : p \in Products} :
    addCurrentProductToCart(currentProduct)

OtherTabStep ==
  \E cart \in {AddCart(getCartItems(cartStore), p) :
                 p \in {q \in Products :
                          \A i \in 1..Len(getCartItems(cartStore)) :
                            getCartItems(cartStore)[i].Id = q.Id
                              => getCartItems(cartStore)[i].Quantity < MaxQty}}
                \cup {RemoveCart(getCartItems(cartStore), id) : id \in ProductIds}
                \cup {<<>>} :
    otherTabWrites(cart)

NextHeader ==
  \/ AddCurrentStep
       /\ UNCHANGED <<listeners, callLog, cartLast, invVars, formVars,
                      checkoutVars, pureVars, headerRest>>
  \/ OtherTabStep
       /\ UNCHANGED <<listeners, callLog, cartLast, invVars, formVars,
                      checkoutVars, pureVars, headerRest>>
  \/ storageEvent
       /\ UNCHANGED <<listeners, callLog, cartLast, invVars, formVars,
                      checkoutVars, pureVars, headerRest>>

SpecHeader == InitHeader /\ [][NextHeader]_vars

\* the displayed count is the sum of the quantities of the persisted cart
\* and the badge is hidden iff that count is 0
BadgeReflectsStore ==
  /\ header.textContent = getItemCount(cartStore)
  /\ (header.display = "none") <=> (getItemCount(cartStore) = 0)

\* C23: after every cart mutation performed on the page, through any
\* CartManager instance, and after every storage-change signal caused by
\* another tab, the badge shows the sum of the quantities of the persisted
\* cart and is hidden iff that count is 0.
C23_BadgeReflectsStore ==
  header.event \in {"addToCart", "storage"} => BadgeReflectsStore

(***************************************************************************)
(* Search box (searchEventHandler.mjs over productSearch.mjs and           *)
(* searchRenderer.mjs).                                                    *)
(*                                                                         *)
(* searchUi holds the handler and what it works on: debounceTimer (0 is    *)
(* null), the browser's pending debounce timers (id, the term the callback *)
(* closes over, the time it is due), nextId (the id setTimeout gives       *)
(* next), value (the text of the search input), displayed (the products    *)
(* last handed to displayResults) and now, the time in ms.  A timer fires  *)
(* when it is due or later, never earlier.  For the properties it also     *)
(* keeps event (what ran last: load, input, debounced, keydown or click),  *)
(* lastInput (term and time of the last input event), ran (the term of the *)
(* last debounced search) and superseded (clear or submit, when one ran    *)
(* after the last input event).                                            *)
(* Time moves in steps of 100 ms.                                          *)
(***************************************************************************)
MaxInputs == 3
MaxTicks == 5

debounceDelay == 300

\* a clearTimeout that cancels nothing
clearTimeoutNothing(timers, id) == timers

\* clearTimeout(id): no effect for null or for a timer that has fired
clearTimeout(timers, id) == {t \in timers : t.id # id}

\* what is typed into the search box
InputTerms == { <<>>, <<"t", "e">>, <<"t", "e", "n", "t">> }

\* new SearchEventHandler(allProducts) on a page that shows all products
HandlerInit ==
  /\ productSearch = [allProducts |-> <<Ajax, Zulu, Peg>>,
                      filteredProducts |-> <<Ajax, Zulu, Peg>>,
                      currentSearch |-> <<>>, currentCategory |-> <<>>]
  /\ pureIn = [op |-> "new"]
  /\ pureOut = None
  /\ searchUi = [debounceTimer |-> 0, timers |-> {}, nextId |-> 1,
                 value |-> <<>>, displayed |-> <<Ajax, Zulu, Peg>>, now |-> 0,
                 event |-> "load", lastInput |-> [term |-> <<>>, at |-> 0],
                 ran |-> <<>>, superseded |-> "none"]

InitHandler ==
  HandlerInit /\ CartIdle /\ InvIdle /\ FormIdle /\ CheckoutIdle /\ HandlerRestIdle

\* performSearch(searchTerm) with the rest of the handler's effects in ui:
\* productSearch.search(searchTerm), then displayResults(results, searchTerm)
performSearch(searchTerm, ui) ==
  /\ search(searchTerm, None)
  /\ searchUi' = [ui EXCEPT !.displayed = pureOut'[1]]

\* the input event: the box holds what was typed, the pending timer is
\* cleared and a new one started
handleSearchInput(searchTerm) ==
  /\ searchUi.nextId <= MaxInputs
  /\ searchUi' = [searchUi EXCEPT
                    !.value = searchTerm,
                    !.timers = clearTimeout(@, searchUi.debounceTimer)
                                 \cup {[id |-> searchUi.nextId, term |-> searchTerm,
                                        due |-> searchUi.now + debounceDelay]},
                    !.debounceTimer = searchUi.nextId,
                    !.nextId = @ + 1,
                    !.event = "input",
                    !.lastInput = [term |-> searchTerm, at |-> searchUi.now],
                    !.superseded = "none"]
  /\ UNCHANGED <<productSearch, pureIn, pureOut>>

\* the callback given to setTimeout in handleSearchInput
debounceFires(timer) ==
  /\ timer \in searchUi.timers
  /\ timer.due <= searchUi.now
  /\ performSearch(timer.term,
                   [searchUi EXCEPT !.timers = @ \ {timer},
                                    !.event = "debounced",
                                    !.ran = timer.term])

\* Enter or the Search button (ev: the DOM event that led here)
handleSearchSubmit(ev) ==
  performSearch(trim(searchUi.value),
                [searchUi EXCEPT !.event = ev, !.superseded = "submit"])

\* Escape or the Clear button: clearFilters, clearSearch, then
\* displayResults(getResults().products)
handleClearSearch(ev) ==
  /\ clearFilters
  /\ searchUi' = [searchUi EXCEPT !.value = <<>>,
                                  !.displayed = productSearch'.filteredProducts,
                                  !.event = ev,
                                  !.superseded = "clear"]

handleSearchKeydown(key) ==
  IF key = "Enter" THEN handleSearchSubmit("keydown")
  ELSE IF key = "Escape" THEN handleClearSearch("keydown")
  ELSE /\ searchUi' = [searchUi EXCEPT !.event = "keydown"]
       /\ UNCHANGED <<productSearch, pureIn, pureOut>>

\* 100 ms pass
Tick ==
  /\ searchUi.now < MaxTicks * 100
  /\ searchUi' = [searchUi EXCEPT !.now = @ + 100]
  /\ UNCHANGED <<productSearch, pureIn, pureOut>>

InputStep == \E searchTerm \in InputTerms : handleSearchInput(searchTerm)
FireStep == \E timer \in searchUi.timers : debounceFires(timer)
KeydownStep == \E key \in {"Enter", "Escape", "a"} : handleSearchKeydown(key)

NextHandler ==
  \/ InputStep /\ UNCHANGED <<cartVars, invVars, formVars, checkoutVars, handlerRest>>
  \/ FireStep /\ UNCHANGED <<cartVars, invVars, formVars, checkoutVars, handlerRest>>
  \/ KeydownStep /\ UNCHANGED <<cartVars, invVars, formVars, checkoutVars, handlerRest>>
  \/ handleSearchSubmit("click")
       /\ UNCHANGED <<cartVars, invVars, formVars, checkoutVars, handlerRest>>
  \/ handleClearSearch("click")
       /\ UNCHANGED <<cartVars, invVars, formVars, checkoutVars, handlerRest>>
  \/ Tick /\ UNCHANGED <<cartVars, invVars, formVars, checkoutVars, handlerRest>>

SpecHandler == InitHandler /\ [][NextHandler]_vars

\* C24: at most one debounce timer is pending at any time; an input event
\* cancels the pending timer and starts a new one; the debounced
\* performSearch runs only with the term of the most recent input event and
\* only once 300 ms have passed with no further input.
C24_Debounce ==
  /\ Cardinality(searchUi.timers) <= 1
  /\ searchUi.event = "input" =>
       searchUi.timers = {[id |-> searchUi.debounceTimer,
                           term |-> searchUi.lastInput.term,
                           due |-> searchUi.lastInput.at + 300]}
  /\ searchUi.event = "debounced" =>
       /\ searchUi.ran = searchUi.lastInput.term
       /\ searchUi.now - searchUi.lastInput.at >= 300
       /\ pureIn.searchTerm = searchUi.lastInput.term

\* a debounced search has run for the second of two terms typed in a row
C24_Witness ==
  /\ searchUi.event = "debounced"
  /\ searchUi.nextId = 3
  /\ searchUi.ran = <<"t", "e", "n", "t">>
  /\ Len(searchUi.displayed) = 2

\* C27: once handleClearSearch or handleSearchSubmit has run, no debounced
\* search for the term typed before it is executed, so the results shown
\* after a clear stay the unfiltered product list until the next input
\* event.
C27_Superseded ==
  searchUi.superseded # "none" =>
    /\ searchUi.event # "debounced"
    /\ searchUi.superseded = "clear" => searchUi.displayed = productSearch.allProducts

(***************************************************************************)
(* Two tabs on the inventory page of one category.                         *)
(*                                                                         *)
(* inventory and category are the fields of the InventoryManager in the    *)
(* tab that has the focus; tabs.other holds those of the manager in the    *)
(* other tab once it has been opened, and changing tabs exchanges the two. *)
(* localStorage (invStore) and the clock are shared.  Every write          *)
(* succeeds.  For the properties tabs keeps writer, the tab whose manager  *)
(* wrote last (0: none), and addedSince[t], the ids tab t has added since  *)
(* both tabs were open.                                                    *)
(***************************************************************************)
TabIds == {1, 2}

\* new InventoryManager("tents") in the first tab
TabsInit ==
  /\ InvInit
  /\ tabs = [focus |-> 1, opened |-> FALSE,
             other |-> [inventory |-> <<>>, category |-> "tents"],
             writer |-> 0, addedSince |-> [t \in TabIds |-> {}]]

InitTabs ==
  TabsInit /\ CartIdle /\ FormIdle /\ CheckoutIdle /\ PureIdle /\ TabsRestIdle

\* the page is opened in a second tab: new InventoryManager("tents") loads
\* what is stored now
openTab ==
  /\ ~tabs.opened
  /\ tabs' = [tabs EXCEPT
                !.opened = TRUE,
                !.other = [inventory |-> loadFromStorage(invStore, "tents"),
                           category |-> "tents"]]
  /\ UNCHANGED invVars

\* the user goes to the other tab; nothing runs (the page has no storage or
\* focus listener)
changeTab ==
  /\ tabs.opened
  /\ tabs' = [tabs EXCEPT
                !.focus = 3 - @,
                !.other = [inventory |-> inventory, category |-> category]]
  /\ inventory' = tabs.other.inventory
  /\ category' = tabs.other.category
  /\ UNCHANGED <<invStore, invLast, clock>>

\* what tabs keeps for the properties after a manager call in the tab that
\* has the focus
AfterCall ==
  tabs' = [tabs EXCEPT
             !.writer = IF Wrote(invLast') THEN tabs.focus ELSE @,
             !.addedSince[tabs.focus] =
                IF tabs.opened /\ invLast'.op = "addProduct" /\ invLast'.success
                THEN @ \cup {invLast'.productId} ELSE @]

TabAddStep ==
  /\ \E product \in FormData, now \in Later : addProduct(product, now, TRUE)
  /\ AfterCall
TabDeleteStep ==
  /\ \E productId \in Ids : deleteProduct(productId, TRUE)
  /\ AfterCall
TabUpdateStep ==
  /\ \E productId \in Ids, updates \in Patches, now \in Later :
       updateProduct(productId, updates, now, TRUE)
  /\ AfterCall
TabClearStep == clearAll(TRUE) /\ AfterCall

NextTabs ==
  \/ openTab /\ UNCHANGED <<cartVars, formVars, checkoutVars, pureVars, tabsRest>>
  \/ changeTab /\ UNCHANGED <<cartVars, formVars, checkoutVars, pureVars, tabsRest>>
  \/ TabAddStep /\ UNCHANGED <<cartVars, formVars, checkoutVars, pureVars, tabsRest>>
  \/ TabDeleteStep /\ UNCHANGED <<cartVars, formVars, checkoutVars, pureVars, tabsRest>>
  \/ TabUpdateStep /\ UNCHANGED <<cartVars, formVars, checkoutVars, pureVars, tabsRest>>
  \/ TabClearStep /\ UNCHANGED <<cartVars, formVars, checkoutVars, pureVars, tabsRest>>

SpecTabs == InitTabs /\ [][NextTabs]_vars

\* the in-memory list of the manager in tab t
InMemory(t) == IF tabs.focus = t THEN inventory ELSE tabs.other.inventory

\* C25: two InventoryManager instances on the same category key do not
\* merge: after any interleaving of successful mutations the persisted
\* collection equals the in-memory list of the instance that wrote last, and
\* a record the other instance added after the writer's load is absent from
\* the store.
C25_LastWriterWins ==
  tabs.writer # 0 =>
    /\ invStore["tents"] = [present |-> TRUE, items |-> InMemory(tabs.writer)]
    /\ \A id \in tabs.addedSince[3 - tabs.writer] :
         IndexOfId(loadFromStorage(invStore, "tents"), id) = 0

\* each tab has added a record since both were open, and the store holds
\* only the writer's
C25_Witness ==
  /\ tabs.writer = 1
  /\ tabs.addedSince[1] # {}
  /\ tabs.addedSince[2] # {}
  /\ Len(loadFromStorage(invStore, "tents")) = 1

(***************************************************************************)
(* Two CartManager instances on one store ('so-cart'): two tabs, or the    *)
(* header's manager and a page's manager.                                  *)
(*                                                                         *)
(* listeners are those of the instance that acts; tabs.other holds those   *)
(* of the other instance and changing instance exchanges the two.  The     *)
(* first instance has subscribers, one of which throws; the second has     *)
(* none.  An operation runs to its end before the next one starts.  For    *)
(* the properties tabs keeps expected, the cart obtained by applying every *)
(* operation so far, in the order executed, to the initial cart, and       *)
(* acted, the instances that have run an operation.                        *)
(***************************************************************************)
\* the subscribers of the first instance in the runs explored
FirstListeners == { <<>>, <<[name |-> "badge", throws |-> FALSE],
                           [name |-> "faulty", throws |-> TRUE]>> }

CartsInit ==
  /\ cartStore = NoStore
  /\ \E ls \in FirstListeners :
       listeners = [e \in EventTypes |-> IF e = "cartUpdated" THEN ls ELSE <<>>]
  /\ callLog = <<>>
  /\ cartLast = [op |-> "new", product |-> None, productId |-> "",
                 quantity |-> 0, again |-> FALSE, before |-> NoStore, listeners |-> <<>>,
                 ret |-> <<>>, notified |-> FALSE, threw |-> FALSE]
  /\ tabs = [focus |-> 1, other |-> [e \in EventTypes |-> <<>>],
             expected |-> <<>>, acted |-> {}]

InitCarts ==
  CartsInit /\ InvIdle /\ FormIdle /\ CheckoutIdle /\ PureIdle /\ TabsRestIdle

\* the next operation is run by the other instance
changeInstance ==
  /\ tabs' = [tabs EXCEPT !.focus = 3 - @, !.other = listeners]
  /\ listeners' = tabs.other
  /\ UNCHANGED <<cartStore, callLog, cartLast>>

\* the cart array an operation builds from the array it is given
Applied(cart, last) ==
  CASE last.op = "addToCart" ->
         IF last.product = None THEN cart ELSE AddCart(cart, last.product[1])
    [] last.op = "removeFromCart" -> RemoveCart(cart, last.productId)
    [] last.op = "updateQuantity" -> UpdateCart(cart, last.productId, last.quantity)
    [] last.op = "clearCart" -> <<>>

AfterCartCall ==
  tabs' = [tabs EXCEPT !.expected = Applied(@, cartLast'),
                       !.acted = @ \cup {tabs.focus}]

NextCarts ==
  \/ changeInstance
       /\ UNCHANGED <<invVars, formVars, checkoutVars, pureVars, tabsRest>>
  \/ AddStep /\ AfterCartCall
       /\ UNCHANGED <<invVars, formVars, checkoutVars, pureVars, tabsRest>>
  \/ RemoveStep /\ AfterCartCall
       /\ UNCHANGED <<invVars, formVars, checkoutVars, pureVars, tabsRest>>
  \/ UpdateStep /\ AfterCartCall
       /\ UNCHANGED <<invVars, formVars, checkoutVars, pureVars, tabsRest>>
  \/ clearCart /\ AfterCartCall
       /\ UNCHANGED <<invVars, formVars, checkoutVars, pureVars, tabsRest>>

SpecCarts == InitCarts /\ [][NextCarts]_vars

\* C26: two CartManager instances sharing one store never lose each other's
\* completed updates: after any interleaving of whole operations the
\* persisted cart equals the result of applying all operations, in
\* execution order, to the initial cart.
C26_NoLostUpdate == getCartItems(cartStore) = tabs.expected

\* both instances have run operations and the cart holds lines of each
C26_Witness ==
  /\ tabs.acted = {1, 2}
  /\ tabs.focus = 2
  /\ Len(getCartItems(cartStore)) = 2
  /\ cartLast.op = "addToCart"

(***************************************************************************)
(* Properties of the form's category field                                 *)
(***************************************************************************)
\* the step is a submit of values that pass validateForm
ValidSubmit ==
  /\ form'.event = "submit"
  /\ FormValidator_validateForm(form.fields).isValid
  /\ invLast' # invLast \/ clock' # clock

\* every record stored under a category key carries that category
StoredUnderOwnKey(store) ==
  \A c \in Categories :
    \A i \in 1..Len(loadFromStorage(store, c)) :
      loadFromStorage(store, c)[i].category = c

\* C29: through the inventory form the manager's active category equals the
\* form's category value at submit time, so every record persisted under
\* so-inventory-<c> has category field c, after any sequence of category
\* changes, successful submits, Edit and Cancel; and an edit submitted after
\* such steps still finds the record being edited.
C29_FormCategory ==
  [][ValidSubmit =>
       /\ category = form.fields.category
       /\ StoredUnderOwnKey(invStore')
       /\ (form.editingProductId # None) =>
            /\ invLast'.op = "updateProduct"
            /\ invLast'.message # "Product not found"]_vars

(***************************************************************************)
(* InventoryRenderer on the inventory page (inventoryMain.mjs): the        *)
(* manager, the renderer and the form handler.                             *)
(*                                                                         *)
(* renderer.clickListeners is the number of click listeners on             *)
(* .inventory-list and renderer.shown the Ids whose cards are in it.  A    *)
(* click on a card's button is dispatched to the listeners present at that *)
(* moment, one after the other; renderer.pending is the number still to    *)
(* run, and no other event is handled before the dispatch ends.  For the   *)
(* properties renderer.click counts what the last click led to.            *)
(***************************************************************************)
\* most click listeners followed on the list
MaxRenders == 3

Actions == {"edit", "delete", "view"}

NoClick ==
  [action |-> "none", productId |-> 0, existed |-> FALSE, invocations |-> 0,
   confirms |-> 0, deleteCalls |-> 0, notFound |-> 0]

\* the Ids of the cards createInventoryItem makes for the products
CardIds(products) == { products[i].Id : i \in 1..Len(products) }

\* render: an empty list shows the empty state; otherwise the cards are
\* replaced and attachEventListeners adds a click listener to the list
render(products) ==
  /\ (Len(products) > 0) => (renderer.clickListeners < MaxRenders)
  /\ renderer' = [renderer EXCEPT
                    !.event = "render",
                    !.shown = CardIds(products),
                    !.clickListeners = IF Len(products) = 0 THEN @ ELSE @ + 1]

\* initializeInventorySystem: the first render of the loaded list
RendererInit ==
  renderer = [event |-> "load", shown |-> CardIds(inventory),
              clickListeners |-> IF Len(inventory) = 0 THEN 0 ELSE 1,
              pending |-> 0, click |-> NoClick]

InitRender ==
  InvInit /\ FormInit /\ RendererInit
  /\ CartIdle /\ CheckoutIdle /\ PureIdle /\ RendererRestIdle

\* a click on a button of a card in the list: the listeners of the list at
\* that moment are the ones that will run
clickButton(action, productId) ==
  /\ renderer.pending = 0
  /\ productId \in renderer.shown
  /\ renderer' = [renderer EXCEPT
                    !.event = "click",
                    !.pending = renderer.clickListeners,
                    !.click = [NoClick EXCEPT
                                 !.action = action, !.productId = productId,
                                 !.existed = (IndexOfId(inventory, productId) > 0)]]
  /\ UNCHANGED <<invVars, formVars>>

\* what one listener adds to the counts of the click
Counted(invoked, confirms, deleteCalls, notFound) ==
  [renderer EXCEPT !.event = "listener",
                   !.pending = @ - 1,
                   !.click.invocations = @ + invoked,
                   !.click.confirms = @ + confirms,
                   !.click.deleteCalls = @ + deleteCalls,
                   !.click.notFound = @ + notFound]

\* InventoryRenderer.handleDelete; confirmed is the answer to confirm()
handleDelete(productId, confirmed, ok) ==
  IF IndexOfId(inventory, productId) = 0
  THEN /\ renderer' = Counted(1, 0, 0, 1)
       /\ UNCHANGED <<invVars, formVars>>
  ELSE IF ~confirmed
  THEN /\ renderer' = Counted(1, 1, 0, 0)
       /\ UNCHANGED <<invVars, formVars>>
  ELSE /\ deleteProduct(productId, ok)
       /\ IF invLast'.success
          THEN /\ (Len(inventory') > 0) => (renderer.clickListeners < MaxRenders)
               /\ renderer' =
                    [Counted(1, 1, 1, 0) EXCEPT
                       !.shown = CardIds(inventory'),
                       !.clickListeners = IF Len(inventory') = 0 THEN @ ELSE @ + 1]
          ELSE renderer' = Counted(1, 1, 1, 0)
       /\ UNCHANGED formVars

\* the listener's branch for an Edit button
clickedEdit(productId) ==
  IF IndexOfId(inventory, productId) = 0
  THEN /\ renderer' = Counted(1, 0, 0, 1)
       /\ UNCHANGED <<invVars, formVars>>
  ELSE /\ handleEdit(productId)
       /\ renderer' = Counted(1, 0, 0, 0)

\* InventoryRenderer.handleView
handleView(productId) ==
  /\ renderer' = IF IndexOfId(inventory, productId) = 0
                 THEN Counted(1, 0, 0, 1)
                 ELSE Counted(1, 0, 0, 0)
  /\ UNCHANGED <<invVars, formVars>>

\* one click listener of the list handles the click
listenerRuns(confirmed, ok) ==
  /\ renderer.pending > 0
  /\ CASE renderer.click.action = "edit" ->
            clickedEdit(renderer.click.productId) /\ confirmed /\ ok
       [] renderer.click.action = "delete" ->
            handleDelete(renderer.click.productId, confirmed, ok)
       [] renderer.click.action = "view" ->
            handleView(renderer.click.productId) /\ confirmed /\ ok

\* the form's and the select's handlers with the render they end in
submitAndRender(now, ok) ==
  /\ renderer.pending = 0
  /\ handleFormSubmit(now, ok)
  /\ IF FormValidator_validateForm(getFormData).isValid /\ invLast'.success
     THEN render(inventory')
     ELSE renderer' = [renderer EXCEPT !.event = "submit"]

changeCategoryAndRender(newCategory) ==
  /\ renderer.pending = 0
  /\ changeCategory(newCategory)
  /\ render(inventory')

typeInForm(typed) ==
  /\ renderer.pending = 0
  /\ typeFields(typed)
  /\ renderer' = [renderer EXCEPT !.event = "type"]

ClickStep == \E action \in Actions, productId \in Ids : clickButton(action, productId)
ListenerStep == \E confirmed \in BOOLEAN, ok \in BOOLEAN : listenerRuns(confirmed, ok)
SubmitRenderStep ==
  \E now \in {clock + 1}, ok \in BOOLEAN : submitAndRender(now, ok)
CategoryRenderStep ==
  \E newCategory \in Categories : changeCategoryAndRender(newCategory)
TypeRenderStep == \E typed \in Typed : typeInForm(typed)

NextRender ==
  \/ ClickStep /\ UNCHANGED <<cartVars, checkoutVars, pureVars, rendererRest>>
  \/ ListenerStep /\ UNCHANGED <<cartVars, checkoutVars, pureVars, rendererRest>>
  \/ SubmitRenderStep /\ UNCHANGED <<cartVars, checkoutVars, pureVars, rendererRest>>
  \/ CategoryRenderStep /\ UNCHANGED <<cartVars, checkoutVars, pureVars, rendererRest>>
  \/ TypeRenderStep /\ UNCHANGED <<cartVars, checkoutVars, pureVars, rendererRest>>

SpecRender == InitRender /\ [][NextRender]_vars

\* C28: however many times render() has run, one click on a Delete button
\* leads to exactly one handleDelete invocation: one confirmation, at most
\* one deleteProduct call and no 'Product not found' error for a product
\* that existed when clicked; the same holds for Edit and View.
C28_OneHandlerPerClick ==
  (renderer.pending = 0 /\ renderer.click.action \in Actions) =>
    /\ renderer.click.invocations = 1
    /\ (renderer.click.action = "delete") =>
         /\ renderer.click.confirms <= 1
         /\ renderer.click.existed => (renderer.click.confirms = 1)
         /\ renderer.click.deleteCalls <= 1
    /\ renderer.click.existed => (renderer.click.notFound = 0)

====
